---- MODULE Spec2Model ----
(***************************************************************************)
(* A model of the coinpayments client: request signing and dispatch        *)
(* (src/src/lib.rs), the signing primitive and helpers (src/src/utils.rs)  *)
(* and inbound webhook authentication (src/src/webhooks.rs).               *)
(*                                                                         *)
(* Text is a sequence of bytes (a Rust String or &[u8] as its bytes); the  *)
(* alphabets are ASCII unless a definition says otherwise.                 *)
(***************************************************************************)
EXTENDS Integers, Sequences, FiniteSets, TLC

VARIABLES
    hmacPrev,    \* the generate_hmac_signature call before the last one
    hmacLast,    \* the last generate_hmac_signature call: key, data, result
    client,      \* the CoinPaymentsClient: client_id, client_secret, base_url
    sigPrev,     \* the generate_signature call before the last one
    sigLast,     \* the last generate_signature call: arguments, signed data, result
    sent,        \* the last request handed to the HTTP transport
    recvKey,     \* the integration private key the webhook receiver holds
    recvSig,     \* the signature the received webhook carries
    whPrev,      \* the webhook signature check before the last one
    whLast,      \* the last webhook signature check: function, arguments, result
    hdrLast,     \* the last parse_webhook_headers call: header map, result
    fresh,       \* the last is_webhook_timestamp_valid call: arguments, clock, result
    handled,     \* the last handle_response call: expected type, response, result
    utilLast,    \* the last call of a helper or of a builder method: arguments, result
    calls,       \* each caller's client operation: where it is, its request and its result
    wire         \* per caller, the requests the HTTP transport was handed and how each ended

vars == <<hmacPrev, hmacLast, client, sigPrev, sigLast, sent, recvKey, recvSig, whPrev, whLast, hdrLast, fresh,
          handled, utilLast, calls, wire>>

---------------------------------------------------------------------------
(* Text helpers *)

Max(a, b) == IF a >= b THEN a ELSE b

\* All sequences over S of length at most n.
SeqsUpTo(S, n) == UNION {[1..k -> S] : k \in 0..n}

RECURSIVE Concat(_)
\* The concatenation of a sequence of texts, without separators.
Concat(parts) ==
    IF parts = <<>> THEN <<>> ELSE Head(parts) \o Concat(Tail(parts))

\* No call has been made yet.
None == [op |-> "none"]

RECURSIVE Join(_, _)
\* [String]::join(sep)
Join(parts, sep) ==
    IF parts = <<>> THEN <<>>
    ELSE IF Len(parts) = 1 THEN parts[1]
    ELSE parts[1] \o sep \o Join(Tail(parts), sep)

---------------------------------------------------------------------------
(* The signing primitive: utils.rs generate_hmac_signature *)

\* Sha512's output size in bytes.
OutputSize == 64

\* hex::encode's table, "0123456789abcdef" as ASCII codes.
HEX_CHARS_LOWER == <<48, 49, 50, 51, 52, 53, 54, 55, 56, 57, 97, 98, 99, 100, 101, 102>>

\* "0123456789ABCDEF".
HEX_CHARS_UPPER == <<48, 49, 50, 51, 52, 53, 54, 55, 56, 57, 65, 66, 67, 68, 69, 70>>

\* What stands for a panic unwinding out of a function that returns text.
PANIC == <<-1>>

\* hex::encode done with the upper-case table.
hex_encode_upper(bytes) ==
    [i \in 1..(2 * Len(bytes)) |->
        IF i % 2 = 1 THEN HEX_CHARS_UPPER[(bytes[(i + 1) \div 2] \div 16) + 1]
                     ELSE HEX_CHARS_UPPER[(bytes[i \div 2] % 16) + 1]]

\* hex::encode: two lower-case hexadecimal digits per byte, high nibble first.
hex_encode(bytes) ==
    [i \in 1..(2 * Len(bytes)) |->
        IF i % 2 = 1 THEN HEX_CHARS_LOWER[(bytes[(i + 1) \div 2] \div 16) + 1]
                     ELSE HEX_CHARS_LOWER[(bytes[i \div 2] % 16) + 1]]

\* Hmac::<Sha512>::new_from_slice: a key of any length is accepted (a key
\* longer than the block is hashed down by the algorithm, a shorter one is
\* padded), so the result is never Err(InvalidLength).
HmacNewFromSlice(key) == [ok |-> TRUE, key |-> key]

\* mac.update(data); mac.finalize().into_bytes(): the keyed hash as an ideal
\* one, a tag of OutputSize bytes that no two (key, data) pairs share.  The
\* tag frames the pair (both lengths as a byte each, the key, the data) and
\* pads with zero bytes.  Where a claim is about distinct inputs giving
\* distinct tags, the model's domains keep the frame within OutputSize; a
\* longer frame is cut to OutputSize bytes, which still holds the key.
HmacFinalize(mac, data) ==
    LET frame == <<Len(mac.key) % 256, Len(data) % 256>> \o mac.key \o data
    IN  [i \in 1..OutputSize |-> IF i <= Len(frame) THEN frame[i] ELSE 0]

\* generate_hmac_signature(private_key, data)
generate_hmac_signature(private_key, data) ==
    LET mac == HmacNewFromSlice(private_key)
    IN  IF ~mac.ok THEN PANIC            \* .expect("HMAC can take key of any size")
        ELSE hex_encode(HmacFinalize(mac, data))

---------------------------------------------------------------------------
(* The client: lib.rs CoinPaymentsClient *)

\* const API_BASE_URL: "https://a-api.coinpayments.net/api"
API_BASE_URL ==
    <<104, 116, 116, 112, 115, 58, 47, 47, 97, 45, 97, 112, 105, 46, 99, 111, 105,
      110, 112, 97, 121, 109, 101, 110, 116, 115, 46, 110, 101, 116, 47, 97, 112, 105>>

\* Client ids a caller constructs the client with: "c1", "c2".
ClientIds == {<<99, 49>>, <<99, 50>>}

\* Client secrets: the empty one and "k".
ClientSecrets == {<<>>, <<107>>}

\* CoinPaymentsClient::new(client_id, client_secret)
new(client_id, client_secret) ==
    [client_id |-> client_id, client_secret |-> client_secret, base_url |-> API_BASE_URL]

\* CoinPaymentsClient::with_base_url(self, base_url): the client it is given,
\* moved, with that base URL.
with_base_url(self, base_url) == [self EXCEPT !.base_url = base_url]

\* str::to_uppercase on ASCII text: a-z become A-Z, every other byte is kept.
to_uppercase(s) ==
    [i \in 1..Len(s) |-> IF s[i] >= 97 /\ s[i] <= 122 THEN s[i] - 32 ELSE s[i]]

\* The data generate_signature signs, with the method as the caller wrote it.
data_with_body_method_as_given(c, timestamp, method, endpoint, body) ==
    Concat(<<c.client_id, timestamp, method, endpoint, body>>)

\* The data generate_signature signs, with the body left out.
data_with_body_dropped(c, timestamp, method, endpoint, body) ==
    Concat(<<c.client_id, timestamp, to_uppercase(method), endpoint>>)

\* The data generate_signature signs, with the method after the endpoint.
data_with_body_reordered(c, timestamp, method, endpoint, body) ==
    Concat(<<c.client_id, timestamp, endpoint, to_uppercase(method), body>>)

\* generate_signature's data_to_sign / data_with_body: the text handed to
\* generate_hmac_signature.
data_with_body(c, timestamp, method, endpoint, body) ==
    LET data_to_sign == c.client_id \o timestamp \o to_uppercase(method) \o endpoint
    IN  IF body /= <<>> THEN data_to_sign \o body ELSE data_to_sign

\* CoinPaymentsClient::generate_signature(&self, timestamp, method, endpoint, body)
generate_signature(c, timestamp, method, endpoint, body) ==
    generate_hmac_signature(c.client_secret,
                            data_with_body(c, timestamp, method, endpoint, body))

\* The clock, in milliseconds since the Unix epoch, within the first day.
MaxClockMs == 1

Digit(d) == 48 + d
TwoDigits(n) == <<Digit((n \div 10) % 10), Digit(n % 10)>>
ThreeDigits(n) == <<Digit((n \div 100) % 10), Digit((n \div 10) % 10), Digit(n % 10)>>

\* CoinPaymentsClient::generate_timestamp: Utc::now() formatted with
\* "%Y-%m-%dT%H:%M:%S%.3fZ", for an instant of 1970-01-01.
format_timestamp(nowMs) ==
    LET secs == nowMs \div 1000
    IN  Concat(<< <<49, 57, 55, 48, 45, 48, 49, 45, 48, 49, 84>>,      \* "1970-01-01T"
                  TwoDigits(secs \div 3600), <<58>>,
                  TwoDigits((secs \div 60) % 60), <<58>>,
                  TwoDigits(secs % 60), <<46>>,
                  ThreeDigits(nowMs % 1000), <<90>> >>)

\* The timestamps, methods, endpoints and bodies generate_signature is called with.
Timestamps == {format_timestamp(t) : t \in 0..MaxClockMs}

\* "GET", "get", "Get", "POST"
MethodTexts == {<<71, 69, 84>>, <<103, 101, 116>>, <<71, 101, 116>>, <<80, 79, 83, 84>>}

\* "v1/ping", "v1/p"
Endpoints == {<<118, 49, 47, 112, 105, 110, 103>>, <<118, 49, 47, 112>>}

\* Body texts are the prefixes, up to MaxBodyLen bytes, of "{}" and "[]".
MaxBodyLen == 2
BodySamples == {<<123, 125, 123, 125, 123, 125>>, <<91, 93, 91, 93, 91, 93>>}
Bodies == {SubSeq(b, 1, k) : b \in BodySamples, k \in 0..MaxBodyLen}

---------------------------------------------------------------------------
(* JSON values and their text: serde_json::Value, serde_json::to_string *)

\* A serde_json::Value.  A String holds its bytes, an Object its members in
\* the order of the text, as <<key, value>> pairs.
JNull == [t |-> "null"]
JBool(b) == [t |-> "bool", v |-> b]
JNumber(n) == [t |-> "num", v |-> n]
JString(s) == [t |-> "str", v |-> s]
JArray(elements) == [t |-> "arr", v |-> elements]
JObject(members) == [t |-> "obj", v |-> members]

RECURSIVE EscapeString(_)
\* The bytes of a string as JSON writes them between the quotes: a quote and
\* a backslash get a backslash before them, a line feed becomes \n, and the
\* bytes before the first of these are written as they are.
EscapeString(s) ==
    LET special(p) == p > Len(s) \/ s[p] \in {34, 92, 10}
        q == CHOOSE p \in 1..(Len(s) + 1) : special(p) /\ \A r \in 1..(p - 1) : ~special(r)
    IN  IF q > Len(s) THEN s
        ELSE SubSeq(s, 1, q - 1) \o <<92, IF s[q] = 10 THEN 110 ELSE s[q]>>
             \o EscapeString(SubSeq(s, q + 1, Len(s)))

RECURSIVE RenderDigits(_)
\* A natural number in decimal.
RenderDigits(n) == IF n < 10 THEN <<Digit(n)>> ELSE RenderDigits(n \div 10) \o <<Digit(n % 10)>>

RECURSIVE RenderJson(_)
\* serde_json::to_string of a Value, which is also the text a server writes
\* for it: no whitespace, members in their order.
RenderJson(json) ==
    CASE json.t = "null" -> <<110, 117, 108, 108>>
      [] json.t = "bool" -> (IF json.v THEN <<116, 114, 117, 101>> ELSE <<102, 97, 108, 115, 101>>)
      [] json.t = "num" ->
            (IF json.v < 0 THEN <<45>> \o RenderDigits(-json.v) ELSE RenderDigits(json.v))
      [] json.t = "str" -> <<34>> \o EscapeString(json.v) \o <<34>>
      [] json.t = "arr" ->
            <<91>> \o Join([i \in 1..Len(json.v) |-> RenderJson(json.v[i])], <<44>>) \o <<93>>
      [] json.t = "obj" ->
            <<123>>
            \o Join([i \in 1..Len(json.v) |->
                        <<34>> \o EscapeString(json.v[i][1]) \o <<34, 58>>
                        \o RenderJson(json.v[i][2])], <<44>>)
            \o <<125>>

---------------------------------------------------------------------------
(* Request dispatch: lib.rs get_request / post_request / put_request /      *)
(* delete_request, utils.rs create_auth_headers and build_query_string      *)

\* The bytes urlencoding::encode leaves as they are.
IsUnreserved(b) ==
    \/ b >= 48 /\ b <= 57        \* 0-9
    \/ b >= 65 /\ b <= 90        \* A-Z
    \/ b >= 97 /\ b <= 122       \* a-z
    \/ b \in {45, 46, 95, 126}   \* - . _ ~

RECURSIVE urlencoding_encode(_)
\* urlencoding::encode: unreserved bytes are kept, every other byte becomes
\* '%' and two upper-case hexadecimal digits.
urlencoding_encode(s) ==
    IF s = <<>> THEN <<>>
    ELSE LET b == Head(s)
         IN  (IF IsUnreserved(b) THEN <<b>>
              ELSE <<37, HEX_CHARS_UPPER[(b \div 16) + 1], HEX_CHARS_UPPER[(b % 16) + 1]>>)
             \o urlencoding_encode(Tail(s))

\* build_query_string writing keys and values as they are.
build_query_string_unencoded(params) ==
    IF params = <<>> THEN <<>>
    ELSE <<63>> \o Join([i \in 1..Len(params) |-> params[i][1] \o <<61>> \o params[i][2]],
                        <<38>>)

\* utils::build_query_string(params): params is a sequence of <<key, value>>.
build_query_string(params) ==
    IF params = <<>> THEN <<>>
    ELSE LET query_parts ==
                 [i \in 1..Len(params) |->
                     urlencoding_encode(params[i][1]) \o <<61>>
                         \o urlencoding_encode(params[i][2])]
         IN  <<63>> \o Join(query_parts, <<38>>)

\* "application/json"
ApplicationJson ==
    <<97, 112, 112, 108, 105, 99, 97, 116, 105, 111, 110, 47, 106, 115, 111, 110>>

\* utils::create_auth_headers(client_id, timestamp, signature): the HashMap.
utils_create_auth_headers(client_id, timestamp, signature) ==
    [h \in {"X-CoinPayments-Client", "X-CoinPayments-Timestamp", "X-CoinPayments-Signature"} |->
        CASE h = "X-CoinPayments-Client" -> client_id
          [] h = "X-CoinPayments-Timestamp" -> timestamp
          [] h = "X-CoinPayments-Signature" -> signature]

\* CoinPaymentsClient::create_auth_headers sending the secret where the
\* client id belongs.
create_auth_headers_secret_as_client(c, nowMs, method, endpoint, body) ==
    LET timestamp == format_timestamp(nowMs)
        signature == generate_signature(c, timestamp, method, endpoint, body)
    IN  utils_create_auth_headers(c.client_secret, timestamp, signature)

\* CoinPaymentsClient::create_auth_headers signing an empty body whatever is sent.
create_auth_headers_empty_body(c, nowMs, method, endpoint, body) ==
    LET timestamp == format_timestamp(nowMs)
    IN  utils_create_auth_headers(c.client_id, timestamp,
                                  generate_signature(c, timestamp, method, endpoint, <<>>))

\* CoinPaymentsClient::create_auth_headers(&self, method, endpoint, body), the
\* clock reading nowMs when it calls generate_timestamp.
create_auth_headers(c, nowMs, method, endpoint, body) ==
    LET timestamp == format_timestamp(nowMs)
        signature == generate_signature(c, timestamp, method, endpoint, body)
    IN  utils_create_auth_headers(c.client_id, timestamp, signature)

\* "GET", "POST", "PUT", "DELETE"
GET == <<71, 69, 84>>
POST == <<80, 79, 83, 84>>
PUT == <<80, 85, 84>>
DELETE == <<68, 69, 76, 69, 84, 69>>

\* The request the builder hands to the transport: .header("Content-Type",
\* "application/json"), then one .header(key, value) per auth header.
BuildRequest(method, url, auth_headers, body) ==
    [method |-> method, url |-> url,
     headers |-> [h \in {"Content-Type"} \cup DOMAIN auth_headers |->
                     IF h = "Content-Type" THEN ApplicationJson ELSE auth_headers[h]],
     body |-> body]

\* The values request bodies take in direct calls of the request functions
\* (a unit, an empty struct, an empty Vec), and serde_json::to_string of a
\* body, given as the Value its Serialize writes.
BodyValues == {JNull, JObject(<<>>), JArray(<<>>)}
serde_json_to_string(v) == RenderJson(v)

\* Query parameters: up to MaxParams pairs of a key ("p", "q") and a value
\* ("1", "a b").
MaxParams == 2
QueryKeys == {<<112>>, <<113>>}
QueryValues == {<<49>>, <<97, 32, 98>>}
QueryParams == SeqsUpTo(QueryKeys \X QueryValues, MaxParams)

\* get_request signing the endpoint with its query string.
get_request_signing_query(c, nowMs, endpoint, query_params) ==
    LET query_string == build_query_string(query_params)
        full_url == c.base_url \o <<47>> \o endpoint \o query_string
        auth_headers == create_auth_headers(c, nowMs, GET, endpoint \o query_string, <<>>)
    IN  BuildRequest(GET, full_url, auth_headers, <<>>)

\* get_request(endpoint, query_params)
get_request(c, nowMs, endpoint, query_params) ==
    LET url == c.base_url \o <<47>> \o endpoint
        query_string == build_query_string(query_params)
        full_url == url \o query_string
        auth_headers == create_auth_headers(c, nowMs, GET, endpoint, <<>>)
    IN  BuildRequest(GET, full_url, auth_headers, <<>>)

\* post_request(endpoint, body)
post_request(c, nowMs, endpoint, body) ==
    LET url == c.base_url \o <<47>> \o endpoint
        body_json == serde_json_to_string(body)
        auth_headers == create_auth_headers(c, nowMs, POST, endpoint, body_json)
    IN  BuildRequest(POST, url, auth_headers, body_json)

\* put_request(endpoint, body)
put_request(c, nowMs, endpoint, body) ==
    LET url == c.base_url \o <<47>> \o endpoint
        body_json == serde_json_to_string(body)
        auth_headers == create_auth_headers(c, nowMs, PUT, endpoint, body_json)
    IN  BuildRequest(PUT, url, auth_headers, body_json)

\* delete_request(endpoint)
delete_request(c, nowMs, endpoint) ==
    LET url == c.base_url \o <<47>> \o endpoint
        auth_headers == create_auth_headers(c, nowMs, DELETE, endpoint, <<>>)
    IN  BuildRequest(DELETE, url, auth_headers, <<>>)

---------------------------------------------------------------------------
(* Webhook authentication: webhooks.rs verify_webhook_signature,            *)
(* parse_webhook_headers, is_webhook_timestamp_valid; utils.rs              *)
(* validate_webhook_signature                                               *)

\* U+FFFD REPLACEMENT CHARACTER in UTF-8.
REPLACEMENT == <<239, 191, 189>>

IsCont(b) == b >= 128 /\ b <= 191

\* The length of the well-formed UTF-8 sequence at the head of s (1 to 4), or
\* minus the length of the ill-formed prefix String::from_utf8_lossy replaces
\* with one U+FFFD (the maximal prefix of a well-formed sequence, at least one
\* byte).  s is not empty.
Utf8Head(s) ==
    LET b1 == s[1]
        n == Len(s)
        lo2 == IF b1 = 224 THEN 160 ELSE IF b1 = 240 THEN 144 ELSE 128
        hi2 == IF b1 = 237 THEN 159 ELSE IF b1 = 244 THEN 143 ELSE 191
        ok2 == n >= 2 /\ s[2] >= lo2 /\ s[2] <= hi2
        ok3 == n >= 3 /\ IsCont(s[3])
        ok4 == n >= 4 /\ IsCont(s[4])
    IN  IF b1 < 128 THEN 1
        ELSE IF b1 >= 194 /\ b1 <= 223 THEN (IF ok2 THEN 2 ELSE -1)
        ELSE IF b1 >= 224 /\ b1 <= 239 THEN
            (IF ~ok2 THEN -1 ELSE IF ~ok3 THEN -2 ELSE 3)
        ELSE IF b1 >= 240 /\ b1 <= 244 THEN
            (IF ~ok2 THEN -1 ELSE IF ~ok3 THEN -2 ELSE IF ~ok4 THEN -3 ELSE 4)
        ELSE -1

RECURSIVE from_utf8_lossy(_)
\* String::from_utf8_lossy(bytes), as the bytes of the resulting text:
\* well-formed sequences are kept, each ill-formed one becomes U+FFFD.
from_utf8_lossy(s) ==
    IF s = <<>> THEN <<>>
    ELSE LET k == Utf8Head(s)
         IN  IF k > 0 THEN SubSeq(s, 1, k) \o from_utf8_lossy(SubSeq(s, k + 1, Len(s)))
             ELSE REPLACEMENT \o from_utf8_lossy(SubSeq(s, 1 - k, Len(s)))

\* verify_webhook_signature signing the headers alone, without the payload.
verify_webhook_signature_no_payload(private_key, headers, payload) ==
    hex_encode(HmacFinalize(HmacNewFromSlice(private_key),
                            headers.client_id \o headers.timestamp))
        = headers.signature

\* webhooks::verify_webhook_signature(private_key, headers, payload)
verify_webhook_signature(private_key, headers, payload) ==
    LET data_to_sign == headers.client_id \o headers.timestamp \o payload
        mac == HmacNewFromSlice(private_key)
    IN  IF ~mac.ok THEN FALSE
        ELSE LET expected_signature == hex_encode(HmacFinalize(mac, data_to_sign))
             IN  expected_signature = headers.signature

\* utils::validate_webhook_signature(private_key, client_id, timestamp, payload,
\* received_signature)
validate_webhook_signature(private_key, client_id, timestamp, payload, received_signature) ==
    LET data_to_sign == client_id \o timestamp \o payload
        expected_signature ==
            generate_hmac_signature(private_key, from_utf8_lossy(data_to_sign))
    IN  expected_signature = received_signature

\* The three headers a webhook must carry.
RequiredHeaders ==
    {"X-CoinPayments-Client", "X-CoinPayments-Timestamp", "X-CoinPayments-Signature"}

\* parse_webhook_headers taking an absent signature header as the empty text.
parse_webhook_headers_defaulting(header_map) ==
    IF "X-CoinPayments-Client" \notin DOMAIN header_map
    THEN [ok |-> FALSE, error |-> "Api", message |-> "Missing X-CoinPayments-Client header"]
    ELSE IF "X-CoinPayments-Timestamp" \notin DOMAIN header_map
    THEN [ok |-> FALSE, error |-> "Api", message |-> "Missing X-CoinPayments-Timestamp header"]
    ELSE [ok |-> TRUE,
          client_id |-> header_map["X-CoinPayments-Client"],
          timestamp |-> header_map["X-CoinPayments-Timestamp"],
          signature |-> IF "X-CoinPayments-Signature" \in DOMAIN header_map
                        THEN header_map["X-CoinPayments-Signature"] ELSE <<>>]

\* webhooks::parse_webhook_headers(header_map): header_map is a function from
\* the header names present to their values.
parse_webhook_headers(header_map) ==
    IF "X-CoinPayments-Client" \notin DOMAIN header_map
    THEN [ok |-> FALSE, error |-> "Api", message |-> "Missing X-CoinPayments-Client header"]
    ELSE IF "X-CoinPayments-Timestamp" \notin DOMAIN header_map
    THEN [ok |-> FALSE, error |-> "Api", message |-> "Missing X-CoinPayments-Timestamp header"]
    ELSE IF "X-CoinPayments-Signature" \notin DOMAIN header_map
    THEN [ok |-> FALSE, error |-> "Api", message |-> "Missing X-CoinPayments-Signature header"]
    ELSE [ok |-> TRUE,
          client_id |-> header_map["X-CoinPayments-Client"],
          timestamp |-> header_map["X-CoinPayments-Timestamp"],
          signature |-> header_map["X-CoinPayments-Signature"]]

\* The width of the model's machine words: i64 and u64 are scaled to WordBits
\* bits, seconds keep their meaning.
WordBits == 4
Modulus == 2 ^ WordBits
I64_MIN == -(2 ^ (WordBits - 1))
I64_MAX == 2 ^ (WordBits - 1) - 1
U64_MAX == Modulus - 1

\* `x as u64` for an i64 x: the same bits, read unsigned.
as_u64(x) == x % Modulus

\* u64::saturating_sub
saturating_sub(a, b) == IF a >= b THEN a - b ELSE 0

\* chrono::DateTime::parse_from_rfc3339(timestamp) followed by .timestamp(): a
\* timestamp text is either not RFC 3339 or a local date-time (seconds from
\* 1970-01-01T00:00:00 on the local calendar) with a UTC offset in seconds; the
\* instant's Unix time is local - offset.
parse_from_rfc3339(timestamp) ==
    IF ~timestamp.wellformed THEN [ok |-> FALSE]
    ELSE [ok |-> TRUE, secs |-> timestamp.local - timestamp.offset]

\* is_webhook_timestamp_valid comparing with < instead of <=.
is_webhook_timestamp_valid_strict(timestamp, tolerance_seconds, now) ==
    LET dt == parse_from_rfc3339(timestamp)
    IN  IF ~dt.ok THEN FALSE
        ELSE saturating_sub(now, as_u64(dt.secs)) < tolerance_seconds

\* webhooks::is_webhook_timestamp_valid(timestamp, tolerance_seconds), with now
\* the seconds SystemTime::now() is after UNIX_EPOCH.
is_webhook_timestamp_valid(timestamp, tolerance_seconds, now) ==
    LET dt == parse_from_rfc3339(timestamp)
    IN  IF ~dt.ok THEN FALSE
        ELSE LET webhook_time == as_u64(dt.secs)
             IN  saturating_sub(now, webhook_time) <= tolerance_seconds

---------------------------------------------------------------------------
(* JSON: serde_json::from_str as handle_response and                        *)
(* extract_api_error_message use it                                         *)

\* A serde_json::Error: its message without the line and column, and the
\* name it quotes if any.
JsonError(msg, arg) == [ok |-> FALSE, diagnostic |-> [msg |-> msg, arg |-> arg]]

\* A value read from a text, and the position after it.
ParsedAt(v, next) == [ok |-> TRUE, v |-> v, next |-> next]

\* The whitespace JSON allows: space, tab, line feed, carriage return.
IsWhitespace(b) == b \in {32, 9, 10, 13}

RECURSIVE SkipWhitespace(_, _)
\* The first position from i on that holds no whitespace.
SkipWhitespace(s, i) ==
    IF i <= Len(s) /\ IsWhitespace(s[i]) THEN SkipWhitespace(s, i + 1) ELSE i

\* The text holds lit at position i.
HasAt(s, i, lit) ==
    /\ i + Len(lit) - 1 <= Len(s)
    /\ SubSeq(s, i, i + Len(lit) - 1) = lit

\* The byte a one-letter escape stands for: \" \\ \/ \b \f \n \r \t.
Unescape(b) ==
    CASE b = 34 -> 34 [] b = 92 -> 92 [] b = 47 -> 47 [] b = 98 -> 8
      [] b = 102 -> 12 [] b = 110 -> 10 [] b = 114 -> 13 [] b = 116 -> 9

RECURSIVE ParseString(_, _, _)
\* The string whose opening quote is before position i; acc is what has been
\* read of it.  The bytes up to the next quote, backslash, control character
\* or end of text are read as they are.  The texts of the model hold no \u
\* escape.
ParseString(s, i, acc) ==
    LET stop(p) == p > Len(s) \/ s[p] \in {34, 92} \/ s[p] < 32
        after(q, read) ==
            IF q > Len(s) THEN JsonError("EOF while parsing a string", <<>>)
            ELSE IF s[q] = 34 THEN ParsedAt(read, q + 1)
            ELSE IF s[q] = 92 THEN
                IF q + 1 > Len(s) THEN JsonError("EOF while parsing a string", <<>>)
                ELSE IF s[q + 1] \in {34, 92, 47, 98, 102, 110, 114, 116}
                     THEN ParseString(s, q + 2, Append(read, Unescape(s[q + 1])))
                     ELSE JsonError("invalid escape", <<>>)
            ELSE JsonError("control character (\\u0000-\\u001F) found while parsing a string", <<>>)
        run(q) == after(q, acc \o SubSeq(s, i, q - 1))
    IN  run(CHOOSE p \in i..(Len(s) + 1) : stop(p) /\ \A r \in i..(p - 1) : ~stop(r))

IsDigit(b) == b >= 48 /\ b <= 57

RECURSIVE ParseDigits(_, _, _)
\* The digits from position i on, as a number continuing acc.
ParseDigits(s, i, acc) ==
    IF i <= Len(s) /\ IsDigit(s[i]) THEN ParseDigits(s, i + 1, 10 * acc + (s[i] - 48))
    ELSE [v |-> acc, next |-> i]

\* An integer at position i: an optional minus sign, then 0 or a digit 1-9
\* and more digits.  The texts of the model hold no fraction or exponent.
ParseNumber(s, i) ==
    LET negative == s[i] = 45
        j == IF negative THEN i + 1 ELSE i
    IN  IF j > Len(s) THEN JsonError("EOF while parsing a value", <<>>)
        ELSE IF ~IsDigit(s[j]) THEN JsonError("invalid number", <<>>)
        ELSE IF s[j] = 48 THEN
            IF j + 1 <= Len(s) /\ IsDigit(s[j + 1]) THEN JsonError("invalid number", <<>>)
            ELSE ParsedAt(JNumber(0), j + 1)
        ELSE LET d == ParseDigits(s, j, 0)
             IN  ParsedAt(JNumber(IF negative THEN -d.v ELSE d.v), d.next)

RECURSIVE ParseValue(_, _)
RECURSIVE ParseElement(_, _)
RECURSIVE ParseElements(_, _, _)
RECURSIVE ParseMember(_, _)
RECURSIVE ParseMembers(_, _, _)

\* The value that starts at position i0 or after whitespace from there.
ParseValue(s, i0) ==
    LET string(r) == IF r.ok THEN ParsedAt(JString(r.v), r.next) ELSE r
        object(j) ==
            IF j <= Len(s) /\ s[j] = 125 THEN ParsedAt(JObject(<<>>), j + 1)
            ELSE ParseMembers(s, j, <<>>)
        array(j) ==
            IF j <= Len(s) /\ s[j] = 93 THEN ParsedAt(JArray(<<>>), j + 1)
            ELSE ParseElements(s, j, <<>>)
        value(i) ==
            IF i > Len(s) THEN JsonError("EOF while parsing a value", <<>>)
            ELSE IF s[i] = 123 THEN object(SkipWhitespace(s, i + 1))
            ELSE IF s[i] = 91 THEN array(SkipWhitespace(s, i + 1))
            ELSE IF s[i] = 34 THEN string(ParseString(s, i + 1, <<>>))
            ELSE IF HasAt(s, i, <<110, 117, 108, 108>>) THEN ParsedAt(JNull, i + 4)
            ELSE IF HasAt(s, i, <<116, 114, 117, 101>>) THEN ParsedAt(JBool(TRUE), i + 4)
            ELSE IF HasAt(s, i, <<102, 97, 108, 115, 101>>) THEN ParsedAt(JBool(FALSE), i + 5)
            ELSE IF s[i] = 45 \/ IsDigit(s[i]) THEN ParseNumber(s, i)
            ELSE JsonError("expected value", <<>>)
    IN  value(SkipWhitespace(s, i0))

\* One element of an array and what follows it: a comma (more) or the
\* closing bracket.
ParseElement(s, i) ==
    LET close(r, j) ==
            IF j > Len(s) THEN JsonError("EOF while parsing a list", <<>>)
            ELSE IF s[j] \in {44, 93}
                 THEN [ok |-> TRUE, v |-> r.v, more |-> s[j] = 44, next |-> j + 1]
            ELSE JsonError("expected , or ]", <<>>)
        after(r) == IF ~r.ok THEN r ELSE close(r, SkipWhitespace(s, r.next))
    IN  after(ParseValue(s, i))

\* The rest of an array from its next element on; acc holds the elements read.
ParseElements(s, i, acc) ==
    LET after(e) ==
            IF ~e.ok THEN e
            ELSE IF e.more THEN ParseElements(s, e.next, Append(acc, e.v))
            ELSE ParsedAt(JArray(Append(acc, e.v)), e.next)
    IN  after(ParseElement(s, i))

\* One member of an object and what follows it: a comma (more) or the
\* closing brace.
ParseMember(s, i) ==
    LET close(key, r, j) ==
            IF j > Len(s) THEN JsonError("EOF while parsing an object", <<>>)
            ELSE IF s[j] \in {44, 125}
                 THEN [ok |-> TRUE, v |-> <<key.v, r.v>>, more |-> s[j] = 44, next |-> j + 1]
            ELSE JsonError("expected , or }", <<>>)
        value(key, r) == IF ~r.ok THEN r ELSE close(key, r, SkipWhitespace(s, r.next))
        colon(key, c) ==
            IF c > Len(s) THEN JsonError("EOF while parsing an object", <<>>)
            ELSE IF s[c] /= 58 THEN JsonError("expected :", <<>>)
            ELSE value(key, ParseValue(s, c + 1))
        name(key) == IF ~key.ok THEN key ELSE colon(key, SkipWhitespace(s, key.next))
        member(k) ==
            IF k > Len(s) THEN JsonError("EOF while parsing an object", <<>>)
            ELSE IF s[k] /= 34 THEN JsonError("key must be a string", <<>>)
            ELSE name(ParseString(s, k + 1, <<>>))
    IN  member(SkipWhitespace(s, i))

\* The rest of an object from its next key on; acc holds the members read.
ParseMembers(s, i, acc) ==
    LET after(m) ==
            IF ~m.ok THEN m
            ELSE IF m.more THEN ParseMembers(s, m.next, Append(acc, m.v))
            ELSE ParsedAt(JObject(Append(acc, m.v)), m.next)
    IN  after(ParseMember(s, i))

\* serde_json::from_str::<serde_json::Value>(text): one value, with nothing
\* but whitespace after it.
serde_json_from_str_Value(text) ==
    LET whole(r) ==
            IF ~r.ok THEN r
            ELSE IF SkipWhitespace(text, r.next) <= Len(text)
                 THEN JsonError("trailing characters", <<>>)
            ELSE [ok |-> TRUE, v |-> r.v]
    IN  whole(ParseValue(text, 1))

\* Option::None, and Option::Some(x).
OptionNone == [t |-> "None"]
OptionSome(x) == [t |-> "Some", v |-> x]

\* Value::get(key): the member of an object with that key, the last one the
\* text gives if it repeats the key; None for a value that is not an object.
Value_get(json, key) ==
    IF json.t /= "obj" THEN OptionNone
    ELSE LET at == {i \in 1..Len(json.v) : json.v[i][1] = key}
         IN  IF at = {} THEN OptionNone
             ELSE OptionSome(json.v[CHOOSE i \in at : \A j \in at : j <= i][2])

\* Value::as_str
Value_as_str(json) == IF json.t = "str" THEN OptionSome(json.v) ELSE OptionNone

\* extract_api_error_message reading `message` before `error`.
extract_api_error_message_message_first(response_text) ==
    LET parsed == serde_json_from_str_Value(response_text)
        field(name) ==
            IF ~parsed.ok THEN OptionNone
            ELSE LET found == Value_get(parsed.v, name)
                 IN  IF found.t = "Some" THEN Value_as_str(found.v) ELSE OptionNone
        error == field(<<101, 114, 114, 111, 114>>)
        message == field(<<109, 101, 115, 115, 97, 103, 101>>)
    IN  IF message.t = "Some" THEN message.v
        ELSE IF error.t = "Some" THEN error.v
        ELSE response_text

\* utils::extract_api_error_message(response_text)
extract_api_error_message(response_text) ==
    LET parsed == serde_json_from_str_Value(response_text)
    IN  IF parsed.ok
        THEN LET error == Value_get(parsed.v, <<101, 114, 114, 111, 114>>)
                 error_str == IF error.t = "Some" THEN Value_as_str(error.v) ELSE OptionNone
                 message == Value_get(parsed.v, <<109, 101, 115, 115, 97, 103, 101>>)
                 message_str ==
                     IF message.t = "Some" THEN Value_as_str(message.v) ELSE OptionNone
             IN  IF error_str.t = "Some" THEN error_str.v
                 ELSE IF message_str.t = "Some" THEN message_str.v
                 ELSE response_text
        ELSE response_text

---------------------------------------------------------------------------
(* Typed decoding: serde_json::from_str::<T> for the derived Deserialize of *)
(* the response types                                                       *)

\* The types a response is decoded as.  A struct lists its fields in the
\* order of its declaration.
TString == [k |-> "String"]
TU32 == [k |-> "u32"]
TUnit == [k |-> "unit"]
TValue == [k |-> "Value"]
TOption(of) == [k |-> "Option", of |-> of]
TF64 == [k |-> "f64"]
TU64 == [k |-> "u64"]
TVec(of) == [k |-> "Vec", of |-> of]
\* An enum of unit variants, each under the name its rename_all rule gives it.
TEnum(name, variants) == [k |-> "enum", name |-> name, variants |-> variants]
\* A type the model does not decode: no body is read as one.
TOpaque(name) == [k |-> "opaque", name |-> name]
Field(name, ty) == [name |-> name, ty |-> ty]
TStruct(name, fields) == [k |-> "struct", name |-> name, fields |-> fields]

\* struct PingResponse { message, timestamp, version: String }
PingResponse ==
    TStruct("PingResponse",
            <<Field(<<109, 101, 115, 115, 97, 103, 101>>, TString), Field(<<116, 105, 109, 101, 115, 116, 97, 109, 112>>, TString),
              Field(<<118, 101, 114, 115, 105, 111, 110>>, TString)>>)

\* struct ApiError { code: String, message: String, details: Option<Value> }
ApiError ==
    TStruct("ApiError",
            <<Field(<<99, 111, 100, 101>>, TString), Field(<<109, 101, 115, 115, 97, 103, 101>>, TString),
              Field(<<100, 101, 116, 97, 105, 108, 115>>, TOption(TValue))>>)

\* struct PaginationMetadata { page, per_page, total, total_pages: u32 }
PaginationMetadata ==
    TStruct("PaginationMetadata",
            <<Field(<<112, 97, 103, 101>>, TU32), Field(<<112, 101, 114, 95, 112, 97, 103, 101>>, TU32),
              Field(<<116, 111, 116, 97, 108>>, TU32), Field(<<116, 111, 116, 97, 108, 95, 112, 97, 103, 101, 115>>, TU32)>>)

\* struct ApiResponse<T> { data: Option<T>, error: Option<ApiError>,
\*                         pagination: Option<PaginationMetadata> }
ApiResponse(T) ==
    TStruct("ApiResponse",
            <<Field(<<100, 97, 116, 97>>, TOption(T)), Field(<<101, 114, 114, 111, 114>>, TOption(ApiError)),
              Field(<<112, 97, 103, 105, 110, 97, 116, 105, 111, 110>>, TOption(PaginationMetadata))>>)

\* A decoded value.
Decoded(v) == [ok |-> TRUE, v |-> v]
UnitValue == [t |-> "unit"]
StructValue(name, fields) == [t |-> "struct", name |-> name, v |-> fields]

\* The index of the field called key, or 0 (the derive ignores such a key).
FieldIndex(fields, key) ==
    IF \E j \in 1..Len(fields) : fields[j].name = key
    THEN CHOOSE j \in 1..Len(fields) : fields[j].name = key
    ELSE 0

RECURSIVE Deserialize(_, _)
RECURSIVE DeserializeElements(_, _, _, _)
RECURSIVE DeserializeMap(_, _, _, _)
RECURSIVE DeserializeSeq(_, _, _, _)

\* A decoded Vec and a decoded enum variant.
VecValue(elements) == [t |-> "vec", v |-> elements]
VariantValue(name, variant) == [t |-> "variant", name |-> name, v |-> variant]

\* T::deserialize reading the value json.  The numbers of the model are
\* integers far below u32::MAX, so a u32 or u64 only has to be non-negative
\* and an f64 takes every number.
Deserialize(ty, json) ==
    CASE ty.k = "String" ->
            (IF json.t = "str" THEN Decoded(json) ELSE JsonError("invalid type", <<>>))
      [] ty.k = "u32" ->
            (IF json.t /= "num" THEN JsonError("invalid type", <<>>)
             ELSE IF json.v < 0 THEN JsonError("invalid value", <<>>)
             ELSE Decoded(json))
      [] ty.k = "u64" ->
            (IF json.t /= "num" THEN JsonError("invalid type", <<>>)
             ELSE IF json.v < 0 THEN JsonError("invalid value", <<>>)
             ELSE Decoded(json))
      [] ty.k = "f64" ->
            (IF json.t = "num" THEN Decoded(json) ELSE JsonError("invalid type", <<>>))
      [] ty.k = "unit" ->
            (IF json.t = "null" THEN Decoded(UnitValue) ELSE JsonError("invalid type", <<>>))
      [] ty.k = "Vec" ->
            (IF json.t = "arr" THEN DeserializeElements(ty.of, json.v, 1, <<>>)
             ELSE JsonError("invalid type", <<>>))
      [] ty.k = "enum" ->
            \* "variant", or { "variant": null } with no second member
            (IF json.t = "str"
             THEN IF json.v \in ty.variants THEN Decoded(VariantValue(ty.name, json.v))
                  ELSE JsonError("unknown variant", json.v)
             ELSE IF json.t = "obj"
             THEN IF json.v = <<>> THEN JsonError("expected value", <<>>)
                  ELSE IF json.v[1][1] \notin ty.variants
                  THEN JsonError("unknown variant", json.v[1][1])
                  ELSE IF json.v[1][2].t /= "null" THEN JsonError("invalid type", <<>>)
                  ELSE IF Len(json.v) > 1 THEN JsonError("expected value", <<>>)
                  ELSE Decoded(VariantValue(ty.name, json.v[1][1]))
             ELSE JsonError("expected value", <<>>))
      [] ty.k = "Value" -> Decoded(json)
      [] ty.k = "Option" ->
            (IF json.t = "null" THEN Decoded(OptionNone)
             ELSE LET r == Deserialize(ty.of, json)
                  IN  IF r.ok THEN Decoded(OptionSome(r.v)) ELSE r)
      [] ty.k = "struct" ->
            (IF json.t = "obj"
             THEN DeserializeMap(ty, json.v, 1, [j \in 1..Len(ty.fields) |-> OptionNone])
             ELSE IF json.t = "arr" THEN DeserializeSeq(ty, json.v, 1, <<>>)
             ELSE JsonError("invalid type", <<>>))

\* Vec<T>'s visit_seq from element i on: every element is read as a T.
DeserializeElements(of, elements, i, acc) ==
    IF i > Len(elements) THEN Decoded(VecValue(acc))
    ELSE LET r == Deserialize(of, elements[i])
         IN  IF ~r.ok THEN r ELSE DeserializeElements(of, elements, i + 1, Append(acc, r.v))

\* The derived visit_map from member i on; got holds the fields read.  A key
\* that names no field is skipped, a field given twice is an error, and at
\* the end a field not given is None if it is an Option and an error if not.
DeserializeMap(ty, members, i, got) ==
    IF i > Len(members)
    THEN LET missing == {j \in 1..Len(ty.fields) :
                            got[j].t = "None" /\ ty.fields[j].ty.k /= "Option"}
         IN  IF missing /= {}
             THEN JsonError("missing field",
                            ty.fields[CHOOSE j \in missing : \A m \in missing : j <= m].name)
             ELSE Decoded(StructValue(ty.name,
                                      [j \in 1..Len(ty.fields) |->
                                          IF got[j].t = "Some" THEN got[j].v ELSE OptionNone]))
    ELSE LET j == FieldIndex(ty.fields, members[i][1])
         IN  IF j = 0 THEN DeserializeMap(ty, members, i + 1, got)
             ELSE IF got[j].t = "Some" THEN JsonError("duplicate field", ty.fields[j].name)
             ELSE LET r == Deserialize(ty.fields[j].ty, members[i][2])
                  IN  IF ~r.ok THEN r
                      ELSE DeserializeMap(ty, members, i + 1,
                                          [got EXCEPT ![j] = OptionSome(r.v)])

\* The derived visit_seq from element i on: one element per field, in order,
\* and no element more.
DeserializeSeq(ty, elements, i, acc) ==
    IF i > Len(ty.fields)
    THEN IF Len(elements) > Len(ty.fields) THEN JsonError("trailing characters", <<>>)
         ELSE Decoded(StructValue(ty.name, acc))
    ELSE IF i > Len(elements) THEN JsonError("invalid length", <<>>)
    ELSE LET r == Deserialize(ty.fields[i].ty, elements[i])
         IN  IF ~r.ok THEN r ELSE DeserializeSeq(ty, elements, i + 1, Append(acc, r.v))

\* serde_json::from_str::<T>(text).  The diagnostic of a text that is not
\* JSON is the one its syntax gives, also where the type would have been
\* refused earlier in the text.
serde_json_from_str(T, text) ==
    LET parsed == serde_json_from_str_Value(text)
    IN  IF ~parsed.ok THEN parsed ELSE Deserialize(T, parsed.v)

---------------------------------------------------------------------------
(* Response handling: lib.rs handle_response *)

\* StatusCode::is_success
is_success(status) == status >= 200 /\ status <= 299

\* StatusCode's canonical_reason for the status codes of the model.
canonical_reason(status) ==
    CASE status = 200 -> "OK"
      [] status = 204 -> "No Content"
      [] status = 300 -> "Multiple Choices"
      [] status = 400 -> "Bad Request"
      [] status = 401 -> "Unauthorized"
      [] status = 404 -> "Not Found"
      [] status = 429 -> "Too Many Requests"
      [] status = 500 -> "Internal Server Error"
      [] OTHER -> "<unknown status code>"

\* What StatusCode's Display writes: the code, a space and the reason.
StatusDisplay(status) == [code |-> status, reason |-> canonical_reason(status)]
NoStatus == [code |-> 0, reason |-> ""]

\* No serde_json::Error.
NoDiagnostic == [msg |-> "", arg |-> <<>>]

\* Ok(value), and the CoinPaymentsError values the client returns.  An
\* Api error's message is its format string with the values written into it:
\* a status, a parser diagnostic, a text.
Ok(value) == [ok |-> TRUE, value |-> value]
Err(error, format, status, diagnostic, text) ==
    [ok |-> FALSE, error |-> error, format |-> format,
     status |-> status, diagnostic |-> diagnostic, text |-> text, source |-> ""]
Authentication == Err("Authentication", "", NoStatus, NoDiagnostic, <<>>)
NotFound == Err("NotFound", "", NoStatus, NoDiagnostic, <<>>)
RateLimit == Err("RateLimit", "", NoStatus, NoDiagnostic, <<>>)
\* Http(#[from] reqwest::Error): the error of the transport, kept as its kind.
Http(e) == [Err("Http", "", NoStatus, NoDiagnostic, <<>>) EXCEPT !.source = e]
Api(format, status, diagnostic, text) == Err("Api", format, status, diagnostic, text)

\* handle_response's status match with no arm for 404.
status_error_without_not_found(status, response_text) ==
    LET error_message == extract_api_error_message(response_text)
    IN  CASE status = 401 -> Authentication
          [] status = 429 -> RateLimit
          [] OTHER -> Api("HTTP {}: {}", StatusDisplay(status), NoDiagnostic, error_message)

\* handle_response's Err(match status.as_u16() { ... }) for a status that is
\* not a success.
status_error(status, response_text) ==
    LET error_message == extract_api_error_message(response_text)
    IN  CASE status = 401 -> Authentication
          [] status = 404 -> NotFound
          [] status = 429 -> RateLimit
          [] OTHER -> Api("HTTP {}: {}", StatusDisplay(status), NoDiagnostic, error_message)

\* The ApiResponse arm taking an envelope without data and without error as
\* a success without a value.
api_response_result_no_data_ok(api_response) ==
    LET data == api_response.v[1]
        error == api_response.v[2]
    IN  IF error.t = "Some"
        THEN Api("API Error: {}", NoStatus, NoDiagnostic, error.v.v[2].v)
        ELSE IF data.t = "Some" THEN Ok(data.v)
        ELSE Ok(UnitValue)

\* The ApiResponse arm looking at data before error.
api_response_result_data_first(api_response) ==
    LET data == api_response.v[1]
        error == api_response.v[2]
    IN  IF data.t = "Some" THEN Ok(data.v)
        ELSE IF error.t = "Some"
             THEN Api("API Error: {}", NoStatus, NoDiagnostic, error.v.v[2].v)
        ELSE Api("No data in response", NoStatus, NoDiagnostic, <<>>)

\* handle_response's Ok(api_response) arm: the error's message if there is an
\* error, else the data if there is data.
api_response_result(api_response) ==
    LET data == api_response.v[1]
        error == api_response.v[2]
    IN  IF error.t = "Some"
        THEN Api("API Error: {}", NoStatus, NoDiagnostic, error.v.v[2].v)
        ELSE IF data.t = "Some" THEN Ok(data.v)
        ELSE Api("No data in response", NoStatus, NoDiagnostic, <<>>)

\* The Err(_) arm reporting the second decode's error.
parse_failure_second_error(parse_error, wrapper_error, response_text) ==
    Api("Failed to parse response: {} - Response: {}", NoStatus, wrapper_error, response_text)

\* handle_response's Err(_) arm: parse_error is the first decode's error, the
\* second decode's is dropped.
parse_failure(parse_error, wrapper_error, response_text) ==
    Api("Failed to parse response: {} - Response: {}", NoStatus, parse_error, response_text)

\* CoinPaymentsClient::handle_response::<T>(response): response.readable says
\* whether response.text() gives the body.
handle_response(T, response) ==
    LET status == response.status
    IN  IF ~response.readable THEN Http("body")      \* response.text().await?
        ELSE LET response_text == response.text
             IN  IF ~is_success(status) THEN status_error(status, response_text)
                 ELSE LET direct == serde_json_from_str(T, response_text)
                      IN  IF direct.ok THEN Ok(direct.v)
                          ELSE LET wrapped ==
                                       serde_json_from_str(ApiResponse(T), response_text)
                               IN  IF wrapped.ok THEN api_response_result(wrapped.v)
                                   ELSE parse_failure(direct.diagnostic,
                                                      wrapped.diagnostic, response_text)

---------------------------------------------------------------------------
(* Client operations: lib.rs ping, invoices.rs create_invoice,             *)
(* transactions.rs create_spend_request, rates.rs get_rates / get_rate /   *)
(* get_currency_rates, fees.rs calculate_blockchain_fee /                  *)
(* get_recommended_fee; utils.rs is_valid_amount                           *)

\* str::parse::<f64> of a text of digits, '.', '+', '-' and letters that no
\* number holds: an optional sign, then digits with at most one '.' among
\* them and at least one digit.  (Exponents, "inf" and "nan" are left out of
\* the texts of the model.)
parse_f64(text) ==
    LET signed == text /= <<>> /\ Head(text) \in {43, 45}
        digits == IF signed THEN Tail(text) ELSE text
        dots == {i \in 1..Len(digits) : digits[i] = 46}
    IN  IF /\ \A i \in 1..Len(digits) : IsDigit(digits[i]) \/ digits[i] = 46
           /\ Cardinality(dots) <= 1
           /\ Len(digits) > Cardinality(dots)
        THEN [ok |-> TRUE,
              negative |-> signed /\ Head(text) = 45,
              zero |-> \A i \in 1..Len(digits) : digits[i] \in {48, 46}]
        ELSE [ok |-> FALSE]

\* utils::is_valid_amount(amount): amount.parse::<f64>().map_or(false, |f| f > 0.0)
is_valid_amount(amount) ==
    LET f == parse_f64(amount)
    IN  IF f.ok THEN ~f.negative /\ ~f.zero ELSE FALSE

\* serde's Serialize of an Option: null for None, the value's own for Some.
SerializeOption(o, SerializeSome(_)) == IF o.t = "None" THEN JNull ELSE SerializeSome(o.v)
SerializeStrings(v) == JArray([i \in 1..Len(v) |-> JString(v[i])])

\* CreateInvoiceRequest::new(amount, currency, description) over
\* CreateInvoiceRequest::default()
CreateInvoiceRequest_new(amount, currency, description) ==
    [amount |-> amount, currency |-> currency, description |-> description,
     invoice_number |-> OptionNone, item_name |-> OptionNone, item_number |-> OptionNone,
     buyer_email |-> OptionNone, buyer_name |-> OptionNone, success_url |-> OptionNone,
     cancel_url |-> OptionNone, ipn_url |-> OptionNone, expires_in |-> OptionSome(3600),
     payment_currencies |-> OptionNone, auto_accept_payments |-> OptionSome(TRUE)]

\* #[derive(Serialize)] struct CreateInvoiceRequest: every field, in order,
\* under its own name.
Serialize_CreateInvoiceRequest(r) ==
    JObject(<< <<<<97, 109, 111, 117, 110, 116>>, JString(r.amount)>>,
               <<<<99, 117, 114, 114, 101, 110, 99, 121>>, JString(r.currency)>>,
               <<<<100, 101, 115, 99, 114, 105, 112, 116, 105, 111, 110>>, JString(r.description)>>,
               <<<<105, 110, 118, 111, 105, 99, 101, 95, 110, 117, 109, 98, 101, 114>>, SerializeOption(r.invoice_number, JString)>>,
               <<<<105, 116, 101, 109, 95, 110, 97, 109, 101>>, SerializeOption(r.item_name, JString)>>,
               <<<<105, 116, 101, 109, 95, 110, 117, 109, 98, 101, 114>>, SerializeOption(r.item_number, JString)>>,
               <<<<98, 117, 121, 101, 114, 95, 101, 109, 97, 105, 108>>, SerializeOption(r.buyer_email, JString)>>,
               <<<<98, 117, 121, 101, 114, 95, 110, 97, 109, 101>>, SerializeOption(r.buyer_name, JString)>>,
               <<<<115, 117, 99, 99, 101, 115, 115, 95, 117, 114, 108>>, SerializeOption(r.success_url, JString)>>,
               <<<<99, 97, 110, 99, 101, 108, 95, 117, 114, 108>>, SerializeOption(r.cancel_url, JString)>>,
               <<<<105, 112, 110, 95, 117, 114, 108>>, SerializeOption(r.ipn_url, JString)>>,
               <<<<101, 120, 112, 105, 114, 101, 115, 95, 105, 110>>, SerializeOption(r.expires_in, JNumber)>>,
               <<<<112, 97, 121, 109, 101, 110, 116, 95, 99, 117, 114, 114, 101, 110, 99, 105, 101, 115>>, SerializeOption(r.payment_currencies, SerializeStrings)>>,
               <<<<97, 117, 116, 111, 95, 97, 99, 99, 101, 112, 116, 95, 112, 97, 121, 109, 101, 110, 116, 115>>, SerializeOption(r.auto_accept_payments, JBool)>> >>)

\* CreateSpendRequest::new(amount) over CreateSpendRequest::default(), and
\* the builder's to_address
CreateSpendRequest_new(amount) ==
    [amount |-> amount, destination_address |-> OptionNone,
     destination_currency_id |-> OptionNone, note |-> OptionNone,
     auto_confirm |-> OptionSome(FALSE)]
to_address(r, address) == [r EXCEPT !.destination_address = OptionSome(address)]

\* #[derive(Serialize)] struct CreateSpendRequest
Serialize_CreateSpendRequest(r) ==
    JObject(<< <<<<97, 109, 111, 117, 110, 116>>, JString(r.amount)>>,
               <<<<100, 101, 115, 116, 105, 110, 97, 116, 105, 111, 110, 95, 97, 100, 100, 114, 101, 115, 115>>, SerializeOption(r.destination_address, JString)>>,
               <<<<100, 101, 115, 116, 105, 110, 97, 116, 105, 111, 110, 95, 99, 117, 114, 114, 101, 110, 99, 121, 95, 105, 100>>,
                 SerializeOption(r.destination_currency_id, JString)>>,
               <<<<110, 111, 116, 101>>, SerializeOption(r.note, JString)>>,
               <<<<97, 117, 116, 111, 95, 99, 111, 110, 102, 105, 114, 109>>, SerializeOption(r.auto_confirm, JBool)>> >>)

\* FeeCalculationRequest::new(currency_id, transaction_type) over
\* FeeCalculationRequest::default(); an enum value is the name serde writes.
FeeCalculationRequest_new(currency_id, transaction_type) ==
    [currency_id |-> currency_id, transaction_type |-> transaction_type,
     amount |-> OptionNone, priority |-> OptionSome(<<115, 116, 97, 110, 100, 97, 114, 100>>),
     recipient_count |-> OptionSome(1)]

\* #[derive(Serialize)] struct FeeCalculationRequest
Serialize_FeeCalculationRequest(r) ==
    JObject(<< <<<<99, 117, 114, 114, 101, 110, 99, 121, 95, 105, 100>>, JString(r.currency_id)>>,
               <<<<116, 114, 97, 110, 115, 97, 99, 116, 105, 111, 110, 95, 116, 121, 112, 101>>, JString(r.transaction_type)>>,
               <<<<97, 109, 111, 117, 110, 116>>, SerializeOption(r.amount, JString)>>,
               <<<<112, 114, 105, 111, 114, 105, 116, 121>>, SerializeOption(r.priority, JString)>>,
               <<<<114, 101, 99, 105, 112, 105, 101, 110, 116, 95, 99, 111, 117, 110, 116>>, SerializeOption(r.recipient_count, JNumber)>> >>)

\* RateQuery::new() with from_currency / to_currency set or not
RateQuery_new ==
    [from_currency |-> OptionNone, to_currency |-> OptionNone, currencies |-> OptionNone,
     page |-> OptionNone, per_page |-> OptionNone, include_inactive |-> OptionSome(FALSE)]
from_currency(q, currency) == [q EXCEPT !.from_currency = OptionSome(currency)]
to_currency(q, currency) == [q EXCEPT !.to_currency = OptionSome(currency)]

\* bool::to_string
bool_to_string(b) == IF b THEN <<116, 114, 117, 101>> ELSE <<102, 97, 108, 115, 101>>

\* RateQuery::to_query_params: one pair per field that is Some, in the order
\* of the code.
to_query_params(q) ==
    (IF q.from_currency.t = "Some" THEN << <<<<102, 114, 111, 109>>, q.from_currency.v>> >> ELSE <<>>)
    \o (IF q.to_currency.t = "Some" THEN << <<<<116, 111>>, q.to_currency.v>> >> ELSE <<>>)
    \o (IF q.currencies.t = "Some"
        THEN << <<<<99, 117, 114, 114, 101, 110, 99, 105, 101, 115>>, Join(q.currencies.v, <<44>>)>> >> ELSE <<>>)
    \o (IF q.page.t = "Some" THEN << <<<<112, 97, 103, 101>>, RenderDigits(q.page.v)>> >> ELSE <<>>)
    \o (IF q.per_page.t = "Some"
        THEN << <<<<112, 101, 114, 95, 112, 97, 103, 101>>, RenderDigits(q.per_page.v)>> >> ELSE <<>>)
    \o (IF q.include_inactive.t = "Some"
        THEN << <<<<105, 110, 99, 108, 117, 100, 101, 95, 105, 110, 97, 99, 116, 105, 118, 101>>, bool_to_string(q.include_inactive.v)>> >> ELSE <<>>)

\* struct ExchangeRate { from_currency_id, to_currency_id, rate: String,
\*   rate_f: f64, last_updated: String, market_cap, volume_24h, change_24h:
\*   Option<String>, change_percentage_24h: Option<f64> }
ExchangeRate ==
    TStruct("ExchangeRate",
            <<Field(<<102, 114, 111, 109, 95, 99, 117, 114, 114, 101, 110, 99, 121, 95, 105, 100>>, TString), Field(<<116, 111, 95, 99, 117, 114, 114, 101, 110, 99, 121, 95, 105, 100>>, TString),
              Field(<<114, 97, 116, 101>>, TString), Field(<<114, 97, 116, 101, 95, 102>>, TF64),
              Field(<<108, 97, 115, 116, 95, 117, 112, 100, 97, 116, 101, 100>>, TString), Field(<<109, 97, 114, 107, 101, 116, 95, 99, 97, 112>>, TOption(TString)),
              Field(<<118, 111, 108, 117, 109, 101, 95, 50, 52, 104>>, TOption(TString)), Field(<<99, 104, 97, 110, 103, 101, 95, 50, 52, 104>>, TOption(TString)),
              Field(<<99, 104, 97, 110, 103, 101, 95, 112, 101, 114, 99, 101, 110, 116, 97, 103, 101, 95, 50, 52, 104>>, TOption(TF64))>>)

\* struct RatePaginationInfo { page, per_page, total, total_pages: u32 }
RatePaginationInfo ==
    TStruct("RatePaginationInfo",
            <<Field(<<112, 97, 103, 101>>, TU32), Field(<<112, 101, 114, 95, 112, 97, 103, 101>>, TU32),
              Field(<<116, 111, 116, 97, 108>>, TU32), Field(<<116, 111, 116, 97, 108, 95, 112, 97, 103, 101, 115>>, TU32)>>)

\* struct GetRatesResponse { rates: Vec<ExchangeRate>, base_currency:
\*   Option<String>, last_updated: String, pagination: Option<RatePaginationInfo> }
GetRatesResponse ==
    TStruct("GetRatesResponse",
            <<Field(<<114, 97, 116, 101, 115>>, TVec(ExchangeRate)), Field(<<98, 97, 115, 101, 95, 99, 117, 114, 114, 101, 110, 99, 121>>, TOption(TString)),
              Field(<<108, 97, 115, 116, 95, 117, 112, 100, 97, 116, 101, 100>>, TString),
              Field(<<112, 97, 103, 105, 110, 97, 116, 105, 111, 110>>, TOption(RatePaginationInfo))>>)

\* fees.rs's enums: FeeType, FeePriority and CongestionLevel are written in
\* lower case, TransactionType in camelCase.
FeeType == TEnum("FeeType", {<<102, 105, 120, 101, 100>>, <<112, 101, 114, 99, 101, 110, 116, 97, 103, 101>>, <<100, 121, 110, 97, 109, 105, 99>>, <<103, 97, 115>>})
FeePriority == TEnum("FeePriority", {<<115, 108, 111, 119>>, <<115, 116, 97, 110, 100, 97, 114, 100>>, <<102, 97, 115, 116>>, <<112, 114, 105, 111, 114, 105, 116, 121>>})
fees_TransactionType ==
    TEnum("TransactionType",
          {<<115, 101, 110, 100>>, <<119, 105, 116, 104, 100, 114, 97, 119, 97, 108>>, <<99, 111, 110, 118, 101, 114, 115, 105, 111, 110>>, <<99, 111, 110, 115, 111, 108, 105, 100, 97, 116, 105, 111, 110>>, <<99, 111, 110, 116, 114, 97, 99, 116>>})
CongestionLevel == TEnum("CongestionLevel", {<<108, 111, 119>>, <<109, 101, 100, 105, 117, 109>>, <<104, 105, 103, 104>>, <<99, 114, 105, 116, 105, 99, 97, 108>>})

\* struct BlockchainFee { currency_id: String, fee_type: FeeType, amount:
\*   String, amount_f: f64, currency_symbol: String,
\*   estimated_confirmation_time: Option<u32>, priority_level: FeePriority }
BlockchainFee ==
    TStruct("BlockchainFee",
            <<Field(<<99, 117, 114, 114, 101, 110, 99, 121, 95, 105, 100>>, TString), Field(<<102, 101, 101, 95, 116, 121, 112, 101>>, FeeType),
              Field(<<97, 109, 111, 117, 110, 116>>, TString), Field(<<97, 109, 111, 117, 110, 116, 95, 102>>, TF64),
              Field(<<99, 117, 114, 114, 101, 110, 99, 121, 95, 115, 121, 109, 98, 111, 108>>, TString),
              Field(<<101, 115, 116, 105, 109, 97, 116, 101, 100, 95, 99, 111, 110, 102, 105, 114, 109, 97, 116, 105, 111, 110, 95, 116, 105, 109, 101>>, TOption(TU32)),
              Field(<<112, 114, 105, 111, 114, 105, 116, 121, 95, 108, 101, 118, 101, 108>>, FeePriority)>>)

\* struct NetworkStatus { currency_id: String, congestion_level:
\*   CongestionLevel, average_confirmation_time: u32, mempool_size:
\*   Option<u64>, last_updated: String }
NetworkStatus ==
    TStruct("NetworkStatus",
            <<Field(<<99, 117, 114, 114, 101, 110, 99, 121, 95, 105, 100>>, TString), Field(<<99, 111, 110, 103, 101, 115, 116, 105, 111, 110, 95, 108, 101, 118, 101, 108>>, CongestionLevel),
              Field(<<97, 118, 101, 114, 97, 103, 101, 95, 99, 111, 110, 102, 105, 114, 109, 97, 116, 105, 111, 110, 95, 116, 105, 109, 101>>, TU32),
              Field(<<109, 101, 109, 112, 111, 111, 108, 95, 115, 105, 122, 101>>, TOption(TU64)), Field(<<108, 97, 115, 116, 95, 117, 112, 100, 97, 116, 101, 100>>, TString)>>)

\* struct FeeCalculationResponse { currency_id: String, transaction_type:
\*   TransactionType, fees: Vec<BlockchainFee>, recommended_fee:
\*   BlockchainFee, network_status: NetworkStatus }
FeeCalculationResponse ==
    TStruct("FeeCalculationResponse",
            <<Field(<<99, 117, 114, 114, 101, 110, 99, 121, 95, 105, 100>>, TString), Field(<<116, 114, 97, 110, 115, 97, 99, 116, 105, 111, 110, 95, 116, 121, 112, 101>>, fees_TransactionType),
              Field(<<102, 101, 101, 115>>, TVec(BlockchainFee)), Field(<<114, 101, 99, 111, 109, 109, 101, 110, 100, 101, 100, 95, 102, 101, 101>>, BlockchainFee),
              Field(<<110, 101, 116, 119, 111, 114, 107, 95, 115, 116, 97, 116, 117, 115>>, NetworkStatus)>>)

\* The response types of create_invoice and create_spend_request.
CreateInvoiceResponse == TOpaque("CreateInvoiceResponse")
SpendRequestResponse == TOpaque("SpendRequestResponse")

\* An operation is written in two halves around its one await: the request
\* it hands to the transport (the operator of its name, through the request
\* function it calls) and what it makes of the request function's result.

\* ping: self.get_request("v1/ping", &[])
ping(c, nowMs) == get_request(c, nowMs, <<118, 49, 47, 112, 105, 110, 103>>, <<>>)

\* create_invoice(request): self.post_request("v2/merchant/invoices", &request)
create_invoice(c, nowMs, request) ==
    post_request(c, nowMs, <<118, 50, 47, 109, 101, 114, 99, 104, 97, 110, 116, 47, 105, 110, 118, 111, 105, 99, 101, 115>>, Serialize_CreateInvoiceRequest(request))

\* create_spend_request(wallet_label, currency_id, request)
create_spend_request(c, nowMs, wallet_label, currency_id, request) ==
    LET endpoint == Concat(<<<<118, 51, 47, 109, 101, 114, 99, 104, 97, 110, 116, 47, 119, 97, 108, 108, 101, 116, 115, 47>>, wallet_label, <<47>>, currency_id,
                             <<47, 115, 112, 101, 110, 100, 47, 114, 101, 113, 117, 101, 115, 116>>>>)
    IN  post_request(c, nowMs, endpoint, Serialize_CreateSpendRequest(request))

\* get_rates(query): self.get_request("v2/rates", &query_params)
get_rates(c, nowMs, query) ==
    LET query_params == IF query.t = "Some" THEN to_query_params(query.v) ELSE <<>>
    IN  get_request(c, nowMs, <<118, 50, 47, 114, 97, 116, 101, 115>>, query_params)

\* get_rate(from_currency, to_currency): self.get_rates(Some(query))
get_rate(c, nowMs, from, to) ==
    LET query == to_currency(from_currency(RateQuery_new, from), to)
    IN  get_rates(c, nowMs, OptionSome(query))

\* get_rate after the await: the first rate of the response with both
\* currency ids, or the Api error.
get_rate_returns(from, to, response) ==
    IF ~response.ok THEN response                      \* .await?
    ELSE LET rates == response.value.v[1].v
             found == {i \in 1..Len(rates) :
                          rates[i].v[1].v = from /\ rates[i].v[2].v = to}
         IN  IF found /= {}
             THEN Ok(rates[CHOOSE i \in found : \A j \in found : i <= j])
             ELSE Api("Rate not found for {} to {}", NoStatus, NoDiagnostic,
                      Concat(<<from, <<32, 116, 111, 32>>, to>>))

\* get_currency_rates(currency_id, as_base): self.get_rates(Some(query))
get_currency_rates(c, nowMs, currency_id, as_base) ==
    LET query == IF as_base THEN from_currency(RateQuery_new, currency_id)
                 ELSE to_currency(RateQuery_new, currency_id)
    IN  get_rates(c, nowMs, OptionSome(query))

\* get_currency_rates after the await: Ok(response.rates)
get_currency_rates_returns(response) ==
    IF ~response.ok THEN response                      \* .await?
    ELSE Ok(response.value.v[1])

\* calculate_blockchain_fee(currency_id, request): self.post_request(&endpoint, ...)
calculate_blockchain_fee(c, nowMs, currency_id, request) ==
    LET endpoint == <<118, 50, 47, 102, 101, 101, 115, 47, 98, 108, 111, 99, 107, 99, 104, 97, 105, 110, 47>> \o currency_id
        default_request == FeeCalculationRequest_new(currency_id, <<115, 101, 110, 100>>)
    IN  post_request(c, nowMs, endpoint,
                     Serialize_FeeCalculationRequest(IF request.t = "Some" THEN request.v
                                                     ELSE default_request))

\* get_recommended_fee(currency_id, target_confirmation_time):
\* self.calculate_blockchain_fee(currency_id, Some(request))
get_recommended_fee(c, nowMs, currency_id, target_confirmation_time) ==
    LET request == FeeCalculationRequest_new(currency_id, <<115, 101, 110, 100>>)
    IN  calculate_blockchain_fee(c, nowMs, currency_id, OptionSome(request))

\* |x| of an i32 that is not i32::MIN
abs(x) == IF x < 0 THEN -x ELSE x

\* get_recommended_fee after the await: min_by_key over response.fees, the
\* first of the fees with the least key.  u32::MAX as i32 is -1; the times
\* and targets of the model are below 2^31, where as i32 changes nothing and
\* the difference does not overflow.
get_recommended_fee_returns(target_confirmation_time, response) ==
    IF ~response.ok THEN response                      \* .await?
    ELSE LET fees == response.value.v[3].v
             key(i) ==
                 LET estimated == fees[i].v[6]
                     est_time == IF estimated.t = "Some" THEN estimated.v.v ELSE -1
                 IN  abs(est_time - target_confirmation_time)
         IN  IF fees = <<>>
             THEN Api("No suitable fee found for target confirmation time",
                      NoStatus, NoDiagnostic, <<>>)
             ELSE Ok(fees[CHOOSE i \in 1..Len(fees) :
                              \A j \in 1..Len(fees) :
                                  key(i) < key(j) \/ (key(i) = key(j) /\ i <= j)])

\* What request.send().await gives: Err(reqwest::Error) of some kind, or
\* the response.
SendFailed(e) == [kind |-> "failed", error |-> e]
Responded(response) == [kind |-> "response", response |-> response]

\* The two last lines of every request function:
\*     let response = request.send().await?;
\*     self.handle_response(response).await
\* The ? turns the reqwest::Error into CoinPaymentsError::Http by #[from].
request_result(T, sent_outcome) ==
    IF sent_outcome.kind = "failed" THEN Http(sent_outcome.error)
    ELSE handle_response(T, sent_outcome.response)

\* request.send() handing the request to the transport twice.
send_twice(log, request) == Append(Append(log, request), request)

\* request.send(): the transport gets the request, once.
send(log, request) == Append(log, request)

---------------------------------------------------------------------------
(* Status and type filters: invoices.rs InvoiceStatus and get_invoices,     *)
(* transactions.rs TransactionStatus, TransactionType and get_transactions  *)

\* u8::to_ascii_lowercase, and str::to_ascii_lowercase; on ASCII text
\* str::to_lowercase gives the same.
to_ascii_lowercase(s) ==
    [i \in 1..Len(s) |-> IF s[i] >= 65 /\ s[i] <= 90 THEN s[i] + 32 ELSE s[i]]
to_lowercase(s) == to_ascii_lowercase(s)

\* serde_derive's RenameRule::apply_to_variant for #[serde(rename_all = rule)]:
\* "lowercase" lower-cases the variant's name, "camelCase" its first letter.
apply_to_variant(rule, variant) ==
    CASE rule = "lowercase" -> to_ascii_lowercase(variant)
      [] rule = "camelCase" ->
            to_ascii_lowercase(SubSeq(variant, 1, 1)) \o SubSeq(variant, 2, Len(variant))

\* #[derive(Debug)] on a variant without fields writes the variant's name.
Debug_fmt(variant) == variant

\* The variants of InvoiceStatus, and the enum as serde reads and writes it.
InvoiceStatus_variants ==
    {<<68, 114, 97, 102, 116>>, <<83, 99, 104, 101, 100, 117, 108, 101, 100>>, <<85, 110, 112, 97, 105, 100>>, <<80, 101, 110, 100, 105, 110, 103>>, <<80, 97, 105, 100>>, <<67, 111, 109, 112, 108, 101, 116, 101, 100>>, <<67, 97, 110, 99, 101, 108, 108, 101, 100>>,
     <<84, 105, 109, 101, 100, 79, 117, 116>>, <<68, 101, 108, 101, 116, 101, 100>>}
InvoiceStatus ==
    TEnum("InvoiceStatus", {apply_to_variant("lowercase", v) : v \in InvoiceStatus_variants})

\* The variants of TransactionStatus, and the enum as serde reads and writes it.
TransactionStatus_variants ==
    {<<67, 114, 101, 97, 116, 101, 100>>, <<80, 101, 110, 100, 105, 110, 103>>, <<80, 114, 111, 99, 101, 115, 115, 105, 110, 103>>, <<67, 111, 109, 112, 108, 101, 116, 101, 100>>, <<69, 120, 112, 105, 114, 101, 100>>, <<70, 97, 105, 108, 101, 100>>,
     <<67, 111, 110, 102, 105, 114, 109, 101, 100, 79, 110, 66, 108, 111, 99, 107, 99, 104, 97, 105, 110>>, <<80, 101, 110, 100, 105, 110, 103, 82, 101, 99, 101, 105, 118, 101>>, <<70, 97, 105, 108, 101, 100, 79, 110, 66, 108, 111, 99, 107, 99, 104, 97, 105, 110>>, <<67, 97, 110, 99, 101, 108, 108, 101, 100>>,
     <<82, 101, 106, 101, 99, 116, 101, 100>>, <<85, 110, 107, 110, 111, 119, 110>>}
TransactionStatus ==
    TEnum("TransactionStatus",
          {apply_to_variant("camelCase", v) : v \in TransactionStatus_variants})

\* The variants of transactions.rs's TransactionType, and the enum as serde
\* reads and writes it.
TransactionType_variants ==
    {<<73, 110, 116, 101, 114, 110, 97, 108, 82, 101, 99, 101, 105, 118, 101>>, <<85, 116, 120, 111, 69, 120, 116, 101, 114, 110, 97, 108, 82, 101, 99, 101, 105, 118, 101>>, <<65, 99, 99, 111, 117, 110, 116, 66, 97, 115, 101, 100, 69, 120, 116, 101, 114, 110, 97, 108, 82, 101, 99, 101, 105, 118, 101>>,
     <<69, 120, 116, 101, 114, 110, 97, 108, 83, 112, 101, 110, 100>>, <<73, 110, 116, 101, 114, 110, 97, 108, 83, 112, 101, 110, 100>>, <<83, 97, 109, 101, 85, 115, 101, 114, 83, 112, 101, 110, 100>>, <<83, 97, 109, 101, 85, 115, 101, 114, 82, 101, 99, 101, 105, 118, 101>>,
     <<65, 99, 99, 111, 117, 110, 116, 66, 97, 115, 101, 100, 69, 120, 116, 101, 114, 110, 97, 108, 84, 111, 107, 101, 110, 82, 101, 99, 101, 105, 118, 101>>, <<65, 99, 99, 111, 117, 110, 116, 66, 97, 115, 101, 100, 84, 111, 107, 101, 110, 83, 112, 101, 110, 100>>, <<67, 111, 110, 118, 101, 114, 115, 105, 111, 110>>,
     <<65, 117, 116, 111, 83, 119, 101, 101, 112, 105, 110, 103>>}
TransactionType ==
    TEnum("TransactionType",
          {apply_to_variant("camelCase", v) : v \in TransactionType_variants})

\* The response types of the list operations; the model decodes none.
GetInvoicesResponse == TOpaque("GetInvoicesResponse")
GetTransactionsResponse == TOpaque("GetTransactionsResponse")

\* The match of get_invoices on its status filter.
status_str(status) ==
    CASE status = <<68, 114, 97, 102, 116>> -> <<100, 114, 97, 102, 116>>
      [] status = <<83, 99, 104, 101, 100, 117, 108, 101, 100>> -> <<115, 99, 104, 101, 100, 117, 108, 101, 100>>
      [] status = <<85, 110, 112, 97, 105, 100>> -> <<117, 110, 112, 97, 105, 100>>
      [] status = <<80, 101, 110, 100, 105, 110, 103>> -> <<112, 101, 110, 100, 105, 110, 103>>
      [] status = <<80, 97, 105, 100>> -> <<112, 97, 105, 100>>
      [] status = <<67, 111, 109, 112, 108, 101, 116, 101, 100>> -> <<99, 111, 109, 112, 108, 101, 116, 101, 100>>
      [] status = <<67, 97, 110, 99, 101, 108, 108, 101, 100>> -> <<99, 97, 110, 99, 101, 108, 108, 101, 100>>
      [] status = <<84, 105, 109, 101, 100, 79, 117, 116>> -> <<116, 105, 109, 101, 100, 79, 117, 116>>
      [] status = <<68, 101, 108, 101, 116, 101, 100>> -> <<100, 101, 108, 101, 116, 101, 100>>

\* query_params.push((key, value)) if the option holds a value.
push_if_some(query_params, key, option, value(_)) ==
    IF option.t = "Some" THEN Append(query_params, <<key, value(option.v)>>)
    ELSE query_params

\* get_invoices(page, per_page, status, currency)
get_invoices(c, nowMs, page, per_page, status, currency) ==
    LET same(s) == s
        with_page == push_if_some(<<>>, <<112, 97, 103, 101>>, page, RenderDigits)
        with_per_page == push_if_some(with_page, <<112, 101, 114, 95, 112, 97, 103, 101>>, per_page, RenderDigits)
        with_status == push_if_some(with_per_page, <<115, 116, 97, 116, 117, 115>>, status, status_str)
        query_params == push_if_some(with_status, <<99, 117, 114, 114, 101, 110, 99, 121>>, currency, same)
    IN  get_request(c, nowMs, <<118, 50, 47, 109, 101, 114, 99, 104, 97, 110, 116, 47, 105, 110, 118, 111, 105, 99, 101, 115>>, query_params)

\* get_transactions(wallet_label, currency_id, page, per_page, status,
\* transaction_type): the status is format!("{:?}", status).to_lowercase(),
\* the type format!("{:?}", tx_type).
get_transactions(c, nowMs, wallet_label, currency_id, page, per_page, status, transaction_type) ==
    LET lower_debug(v) == to_lowercase(Debug_fmt(v))
        with_page == push_if_some(<<>>, <<112, 97, 103, 101>>, page, RenderDigits)
        with_per_page == push_if_some(with_page, <<112, 101, 114, 95, 112, 97, 103, 101>>, per_page, RenderDigits)
        with_status == push_if_some(with_per_page, <<115, 116, 97, 116, 117, 115>>, status, lower_debug)
        query_params == push_if_some(with_status, <<116, 121, 112, 101>>, transaction_type, Debug_fmt)
        endpoint == Concat(<<<<118, 51, 47, 109, 101, 114, 99, 104, 97, 110, 116, 47, 119, 97, 108, 108, 101, 116, 115, 47>>, wallet_label, <<47>>, currency_id,
                             <<47, 116, 114, 97, 110, 115, 97, 99, 116, 105, 111, 110, 115>>>>)
    IN  get_request(c, nowMs, endpoint, query_params)

---------------------------------------------------------------------------
(* Helpers of utils.rs: calculate_pagination, is_valid_email,               *)
(* extract_rate_limit_info                                                  *)

\* The width of the model's u32: scaled to U32Bits bits, wide enough for the
\* numbers the code names (60, 3600).
U32Bits == 12
U32_MAX == 2 ^ U32Bits - 1

\* A panic unwinding out of a function that returns a value, and its message.
Panicked(msg) == [panic |-> TRUE, msg |-> msg]

\* A value the arithmetic arrived at.
Computed(v) == [panic |-> FALSE, v |-> v]

\* A u32 `+` or `-` whose mathematical result is x: a result outside u32
\* panics in a build with overflow checks (the dev profile) and wraps in a
\* build without them (the release profile).
u32_arith(x, overflow_checks, msg) ==
    IF x >= 0 /\ x <= U32_MAX THEN Computed(x)
    ELSE IF overflow_checks THEN Panicked(msg)
    ELSE Computed(x % (U32_MAX + 1))

\* utils::PaginationInfo
PaginationInfo(page, per_page, total, total_pages, has_next, has_prev) ==
    [panic |-> FALSE, page |-> page, per_page |-> per_page, total |-> total,
     total_pages |-> total_pages, has_next |-> has_next, has_prev |-> has_prev]

\* utils::calculate_pagination(total, page, per_page), in a build with or
\* without overflow checks: total_pages = (total + per_page - 1) / per_page.
calculate_pagination(total, page, per_page, overflow_checks) ==
    LET pages(total_pages) ==
            PaginationInfo(page, per_page, total, total_pages, page < total_pages, page > 1)
        quotient(n) ==
            IF n.panic THEN n
            ELSE IF per_page = 0 THEN Panicked("attempt to divide by zero")
            ELSE pages(n.v \div per_page)
        minus_one(sum) ==
            IF sum.panic THEN sum
            ELSE u32_arith(sum.v - 1, overflow_checks, "attempt to subtract with overflow")
    IN  quotient(minus_one(u32_arith(total + per_page, overflow_checks,
                                     "attempt to add with overflow")))

\* str::contains(c) for a char c of one byte.
contains(s, c) == \E i \in 1..Len(s) : s[i] = c

\* utils::is_valid_email(email)
is_valid_email(email) == contains(email, 64) /\ contains(email, 46) /\ Len(email) > 5

\* HeaderValue::to_str: the text, when every byte is visible ASCII or a tab.
to_str(value) ==
    IF \A i \in 1..Len(value) : value[i] = 9 \/ (value[i] >= 32 /\ value[i] <= 126)
    THEN OptionSome(value) ELSE OptionNone

\* str::parse::<u32>() and str::parse::<u64>(), with .ok(): an optional '+',
\* then one or more decimal digits whose value is at most max.
parse_unsigned(text, max) ==
    LET digits == IF Len(text) > 0 /\ text[1] = 43 THEN Tail(text) ELSE text
        read(r) == IF Len(digits) > 0 /\ r.next = Len(digits) + 1 /\ r.v <= max
                   THEN OptionSome(r.v) ELSE OptionNone
    IN  read(ParseDigits(digits, 1, 0))

\* struct RateLimitInfo { calls_made: u32, calls_left: u32, reset_time: u64 }
RateLimitInfo(calls_made, calls_left, reset_time) ==
    [calls_made |-> calls_made, calls_left |-> calls_left, reset_time |-> reset_time]

\* headers.get(name)?.to_str().ok()?.parse().ok() of extract_rate_limit_info:
\* headers is a function from the header names present to their values.
header_number(headers, name, max) ==
    IF name \notin DOMAIN headers THEN OptionNone
    ELSE LET parse(text) == IF text.t = "None" THEN OptionNone
                            ELSE parse_unsigned(text.v, max)
         IN  parse(to_str(headers[name]))

\* utils::extract_rate_limit_info(headers): limit - remaining is a u32
\* subtraction.
extract_rate_limit_info(headers, overflow_checks) ==
    LET remaining == header_number(headers, "X-RateLimit-Remaining", U32_MAX)
        limit == header_number(headers, "X-RateLimit-Limit", U32_MAX)
        reset == header_number(headers, "X-RateLimit-Reset", U64_MAX)
        some(calls_made) ==
            IF calls_made.panic THEN calls_made
            ELSE Computed(OptionSome(RateLimitInfo(calls_made.v, remaining.v, reset.v)))
    IN  IF remaining.t = "None" THEN Computed(OptionNone)
        ELSE IF limit.t = "None" THEN Computed(OptionNone)
        ELSE IF reset.t = "None" THEN Computed(OptionNone)
        ELSE some(u32_arith(limit.v - remaining.v, overflow_checks,
                            "attempt to subtract with overflow"))

---------------------------------------------------------------------------
(* The request builder: invoices.rs CreateInvoiceRequest *)

\* with_invoice_number(number)
with_invoice_number(self, number) == [self EXCEPT !.invoice_number = OptionSome(number)]

\* expires_in_seconds(seconds)
expires_in_seconds(self, seconds) == [self EXCEPT !.expires_in = OptionSome(seconds)]

\* expires_in_minutes(minutes): self.expires_in = Some(minutes * 60), the
\* product in u32, in a build with or without overflow checks.
expires_in_minutes(self, minutes, overflow_checks) ==
    LET set(seconds) ==
            IF seconds.panic THEN seconds
            ELSE Computed([self EXCEPT !.expires_in = OptionSome(seconds.v)])
    IN  set(u32_arith(minutes * 60, overflow_checks, "attempt to multiply with overflow"))

\* auto_accept_payments(auto_accept)
auto_accept_payments(self, auto_accept) ==
    [self EXCEPT !.auto_accept_payments = OptionSome(auto_accept)]

(* The status predicates of transactions.rs and invoices.rs *)

\* A status is the name of its variant; the predicates read the status field
\* of the transaction or invoice and nothing else.
is_transaction_completed(transaction) ==
    transaction.status \in {<<67, 111, 109, 112, 108, 101, 116, 101, 100>>, <<67, 111, 110, 102, 105, 114, 109, 101, 100, 79, 110, 66, 108, 111, 99, 107, 99, 104, 97, 105, 110>>}

is_transaction_pending(transaction) ==
    transaction.status \in {<<80, 101, 110, 100, 105, 110, 103>>, <<80, 101, 110, 100, 105, 110, 103, 82, 101, 99, 101, 105, 118, 101>>, <<80, 114, 111, 99, 101, 115, 115, 105, 110, 103>>}

is_transaction_failed(transaction) ==
    transaction.status \in {<<70, 97, 105, 108, 101, 100>>, <<70, 97, 105, 108, 101, 100, 79, 110, 66, 108, 111, 99, 107, 99, 104, 97, 105, 110>>, <<69, 120, 112, 105, 114, 101, 100>>}

is_invoice_paid(invoice) ==
    invoice.status \in {<<80, 97, 105, 100>>, <<67, 111, 109, 112, 108, 101, 116, 101, 100>>}

\* The predicate that also takes a paid invoice for one still open.
is_invoice_active_until_completed(invoice) ==
    invoice.status \in {<<85, 110, 112, 97, 105, 100>>, <<80, 101, 110, 100, 105, 110, 103>>, <<80, 97, 105, 100>>}

is_invoice_active(invoice) ==
    invoice.status \in {<<85, 110, 112, 97, 105, 100>>, <<80, 101, 110, 100, 105, 110, 103>>}

is_invoice_expired(invoice) ==
    invoice.status = <<84, 105, 109, 101, 100, 79, 117, 116>>

is_invoice_cancelled(invoice) ==
    invoice.status = <<67, 97, 110, 99, 101, 108, 108, 101, 100>>

---------------------------------------------------------------------------
(* The state machine *)

\* Nothing has happened in the parts of the program a specification leaves out.
IdleHmac == hmacPrev = None /\ hmacLast = None
IdleClient == client = None
IdleSignature == sigPrev = None /\ sigLast = None
IdleDispatch == sent = None
IdleWebhook == recvKey = <<>> /\ recvSig = <<>> /\ whPrev = None /\ whLast = None
IdleHeaders == hdrLast = None
IdleFresh == fresh = None
IdleResponse == handled = None
IdleUtil == utilLast = None
IdleCalls == calls = None /\ wire = <<>>

(* generate_hmac_signature called directly, as utils.rs's test does *)

\* Keys are the texts of up to MaxKeyLen bytes over "k", "K"; data the texts
\* of up to MaxDataLen bytes over "a", "b".
MaxKeyLen == 2
MaxDataLen == 2
HmacKeys == SeqsUpTo({107, 75}, MaxKeyLen)
HmacData == SeqsUpTo({97, 98}, MaxDataLen)

\* The log keeps the last two calls; a third call would shift it to a pair of
\* calls that two calls reach as well, so a run makes two.
GenerateHmacSignature ==
    /\ hmacPrev = None
    /\ \E private_key \in HmacKeys, data \in HmacData :
        /\ hmacPrev' = hmacLast
        /\ hmacLast' = [op |-> "generate_hmac_signature",
                        private_key |-> private_key, data |-> data,
                        result |-> generate_hmac_signature(private_key, data)]
        /\ UNCHANGED <<client, sigPrev, sigLast, sent,
                       recvKey, recvSig, whPrev, whLast, hdrLast, fresh,
                       handled, utilLast, calls, wire>>

InitHmac ==
    /\ IdleResponse /\ IdleUtil /\ IdleCalls
    /\ IdleHmac /\ IdleClient /\ IdleSignature /\ IdleDispatch
    /\ IdleWebhook /\ IdleHeaders /\ IdleFresh

NextHmac == GenerateHmacSignature

SpecHmac == InitHmac /\ [][NextHmac]_vars

(* generate_signature called directly, as lib.rs's test does *)

\* One generate_signature call: its arguments, what it handed to the signing
\* primitive and what it returned.
SignatureCall(c, timestamp, method, endpoint, body) ==
    [op |-> "generate_signature",
     timestamp |-> timestamp, method |-> method, endpoint |-> endpoint, body |-> body,
     key |-> c.client_secret,
     data |-> data_with_body(c, timestamp, method, endpoint, body),
     signature |-> generate_signature(c, timestamp, method, endpoint, body)]

\* The log keeps the last two calls, as generate_hmac_signature's does.
GenerateSignature ==
    /\ sigPrev = None
    /\ \E timestamp \in Timestamps, method \in MethodTexts,
          endpoint \in Endpoints, body \in Bodies :
        /\ sigPrev' = sigLast
        /\ sigLast' = SignatureCall(client, timestamp, method, endpoint, body)
        /\ UNCHANGED <<hmacPrev, hmacLast, client, sent,
                       recvKey, recvSig, whPrev, whLast, hdrLast, fresh,
                       handled, utilLast, calls, wire>>

\* The client after CoinPaymentsClient::new.
InitClient == client \in {new(id, secret) : id \in ClientIds, secret \in ClientSecrets}

InitSignature ==
    /\ IdleResponse /\ IdleUtil /\ IdleCalls
    /\ InitClient
    /\ IdleHmac /\ IdleSignature /\ IdleDispatch /\ IdleWebhook /\ IdleHeaders /\ IdleFresh

NextSignature == GenerateSignature

SpecSignature == InitSignature /\ [][NextSignature]_vars

(* Requests.  sent keeps the last request handed to the transport; a later  *)
(* request would replace it by one a first request reaches as well, so a     *)
(* run sends one.                                                            *)

GetRequest ==
    /\ sent = None
    /\ \E nowMs \in 0..MaxClockMs, endpoint \in Endpoints, query_params \in QueryParams :
        /\ sent' = [op |-> "get_request", endpoint |-> endpoint,
                    query_params |-> query_params,
                    request |-> get_request(client, nowMs, endpoint, query_params)]
        /\ UNCHANGED <<hmacPrev, hmacLast, client, sigPrev, sigLast,
                       recvKey, recvSig, whPrev, whLast, hdrLast, fresh,
                       handled, utilLast, calls, wire>>

PostRequest ==
    /\ sent = None
    /\ \E nowMs \in 0..MaxClockMs, endpoint \in Endpoints, body \in BodyValues :
        /\ sent' = [op |-> "post_request", endpoint |-> endpoint, body |-> body,
                    request |-> post_request(client, nowMs, endpoint, body)]
        /\ UNCHANGED <<hmacPrev, hmacLast, client, sigPrev, sigLast,
                       recvKey, recvSig, whPrev, whLast, hdrLast, fresh,
                       handled, utilLast, calls, wire>>

PutRequest ==
    /\ sent = None
    /\ \E nowMs \in 0..MaxClockMs, endpoint \in Endpoints, body \in BodyValues :
        /\ sent' = [op |-> "put_request", endpoint |-> endpoint, body |-> body,
                    request |-> put_request(client, nowMs, endpoint, body)]
        /\ UNCHANGED <<hmacPrev, hmacLast, client, sigPrev, sigLast,
                       recvKey, recvSig, whPrev, whLast, hdrLast, fresh,
                       handled, utilLast, calls, wire>>

DeleteRequest ==
    /\ sent = None
    /\ \E nowMs \in 0..MaxClockMs, endpoint \in Endpoints :
        /\ sent' = [op |-> "delete_request", endpoint |-> endpoint,
                    request |-> delete_request(client, nowMs, endpoint)]
        /\ UNCHANGED <<hmacPrev, hmacLast, client, sigPrev, sigLast,
                       recvKey, recvSig, whPrev, whLast, hdrLast, fresh,
                       handled, utilLast, calls, wire>>

InitDispatch ==
    /\ IdleResponse /\ IdleUtil /\ IdleCalls
    /\ InitClient
    /\ IdleHmac /\ IdleSignature /\ IdleDispatch /\ IdleWebhook /\ IdleHeaders /\ IdleFresh

NextDispatch == GetRequest \/ PostRequest \/ PutRequest \/ DeleteRequest

SpecDispatch == InitDispatch /\ [][NextDispatch]_vars

(* Webhook signature checks *)

\* The private keys "k" and "K"; the sender signs with the first.
WebhookKeys == {<<107>>, <<75>>}
SenderKey == <<107>>

\* The timestamps a webhook carries: two texts that differ in one byte.
WebhookTimestamps == {format_timestamp(0), format_timestamp(1)}

\* Raw payloads: empty, "a", "b", the bytes FF and FE (no UTF-8 text holds
\* either), and U+FFFD as UTF-8.
WebhookPayloads == {<<>>, <<97>>, <<98>>, <<255>>, <<254>>, REPLACEMENT}

\* The sender's signature: the keyed hash of the raw bytes.
SenderSignature(client_id, timestamp, payload) ==
    hex_encode(HmacFinalize(HmacNewFromSlice(SenderKey), client_id \o timestamp \o payload))

\* "invalid_signature"
InvalidSignature ==
    <<105, 110, 118, 97, 108, 105, 100, 95, 115, 105, 103, 110, 97, 116, 117, 114, 101>>

\* The signatures a received webhook may carry.
ReceivedSignatures ==
    {SenderSignature(c, t, p) :
        c \in ClientIds, t \in WebhookTimestamps, p \in WebhookPayloads}
    \cup {InvalidSignature}

\* The receiver holds one private key and checks webhooks that carry one
\* signature; the log keeps the last two checks.
InitWebhook ==
    /\ IdleResponse /\ IdleUtil /\ IdleCalls
    /\ recvKey \in WebhookKeys
    /\ recvSig \in ReceivedSignatures
    /\ whPrev = None /\ whLast = None
    /\ IdleHmac /\ IdleClient /\ IdleSignature /\ IdleDispatch /\ IdleHeaders /\ IdleFresh

VerifyWebhookSignature ==
    /\ whPrev = None
    /\ \E client_id \in ClientIds, timestamp \in WebhookTimestamps,
          payload \in WebhookPayloads :
        /\ whPrev' = whLast
        /\ whLast' =
              [op |-> "verify_webhook_signature",
               client_id |-> client_id, timestamp |-> timestamp, payload |-> payload,
               result |-> verify_webhook_signature(
                              recvKey,
                              [client_id |-> client_id, timestamp |-> timestamp,
                               signature |-> recvSig],
                              payload)]
        /\ UNCHANGED <<hmacPrev, hmacLast, client, sigPrev, sigLast, sent,
                       recvKey, recvSig, hdrLast, fresh,
                       handled, utilLast, calls, wire>>

ValidateWebhookSignature ==
    /\ whPrev = None
    /\ \E client_id \in ClientIds, timestamp \in WebhookTimestamps,
          payload \in WebhookPayloads :
        /\ whPrev' = whLast
        /\ whLast' =
              [op |-> "validate_webhook_signature",
               client_id |-> client_id, timestamp |-> timestamp, payload |-> payload,
               result |-> validate_webhook_signature(recvKey, client_id, timestamp,
                                                     payload, recvSig)]
        /\ UNCHANGED <<hmacPrev, hmacLast, client, sigPrev, sigLast, sent,
                       recvKey, recvSig, hdrLast, fresh,
                       handled, utilLast, calls, wire>>

NextVerify == VerifyWebhookSignature
SpecVerify == InitWebhook /\ [][NextVerify]_vars

NextValidate == ValidateWebhookSignature
SpecValidate == InitWebhook /\ [][NextValidate]_vars

(* Webhook header extraction *)

\* The names a header map may hold: the three required ones, one of them in
\* lower case, and an unrelated one.  The values are "a" and "b".
HeaderNames == RequiredHeaders \cup {"x-coinpayments-client", "Content-Type"}
HeaderValues == {<<97>>, <<98>>}
HeaderMaps == UNION {[names -> HeaderValues] : names \in SUBSET HeaderNames}

\* The record keeps one call, so a run makes one.
ParseWebhookHeaders ==
    /\ hdrLast = None
    /\ \E header_map \in HeaderMaps :
        /\ hdrLast' = [op |-> "parse_webhook_headers", header_map |-> header_map,
                       result |-> parse_webhook_headers(header_map)]
        /\ UNCHANGED <<hmacPrev, hmacLast, client, sigPrev, sigLast, sent,
                       recvKey, recvSig, whPrev, whLast, fresh,
                       handled, utilLast, calls, wire>>

InitHeaders ==
    /\ IdleResponse /\ IdleUtil /\ IdleCalls
    /\ IdleHeaders
    /\ IdleHmac /\ IdleClient /\ IdleSignature /\ IdleDispatch /\ IdleWebhook /\ IdleFresh

NextHeaders == ParseWebhookHeaders
SpecHeaders == InitHeaders /\ [][NextHeaders]_vars

(* Webhook freshness *)

\* Timestamp texts: one that is not RFC 3339, and the date-times whose
\* instant fits the signed word, each with an offset of -1, 0 or +1 seconds.
TimestampTexts ==
    {[wellformed |-> FALSE]}
    \cup {[wellformed |-> TRUE, local |-> l, offset |-> o] :
            l \in (I64_MIN + 1)..(I64_MAX - 1), o \in {-1, 0, 1}}

\* The system clock is at or after the epoch and within the signed range.  The
\* record keeps one call; a later call would replace it by a record that a
\* first call reaches as well, so a run makes one.
IsWebhookTimestampValid ==
    /\ fresh = None
    /\ \E timestamp \in TimestampTexts, tolerance_seconds \in 0..U64_MAX, now \in 0..I64_MAX :
        /\ fresh' = [op |-> "is_webhook_timestamp_valid",
                     timestamp |-> timestamp, tolerance_seconds |-> tolerance_seconds,
                     now |-> now,
                     result |-> is_webhook_timestamp_valid(timestamp, tolerance_seconds, now)]
        /\ UNCHANGED <<hmacPrev, hmacLast, client, sigPrev, sigLast, sent,
                       recvKey, recvSig, whPrev, whLast, hdrLast,
                       handled, utilLast, calls, wire>>

InitFresh ==
    /\ IdleResponse /\ IdleUtil /\ IdleCalls
    /\ IdleFresh
    /\ IdleHmac /\ IdleClient /\ IdleSignature /\ IdleDispatch /\ IdleWebhook /\ IdleHeaders

NextFresh == IsWebhookTimestampValid
SpecFresh == InitFresh /\ [][NextFresh]_vars

(* Response bodies *)

\* What a body that is not JSON stands for where a Value is expected.
NotJson == [t |-> "invalid"]

\* The bodies a server sends for a Value: its text, the text after a line
\* feed, the text before a space, and the text cut short by one byte.  Each
\* body keeps the Value its text was written from.
BodiesOf(json) ==
    LET text == RenderJson(json)
    IN  {[text |-> text, json |-> json],
         [text |-> <<10>> \o text, json |-> json],
         [text |-> text \o <<32>>, json |-> json]}
        \cup (IF json.t \in {"obj", "arr", "str"}
              THEN {[text |-> SubSeq(text, 1, Len(text) - 1), json |-> NotJson]}
              ELSE {})

\* Bodies that are no JSON at all: the empty text, "not json", "{,}".
BrokenBodies ==
    {[text |-> t, json |-> NotJson] : t \in {<<>>, <<110, 111, 116, 32, 106, 115, 111, 110>>, <<123, 44, 125>>}}

(* extract_api_error_message called directly, as lib.rs's handle_response does *)

\* What a server puts in `error`: "e", "", 5, null, {"message":"m"}.
ErrorFieldValues ==
    {JString(<<101>>), JString(<<>>), JNumber(5), JNull,
     JObject(<< <<<<109, 101, 115, 115, 97, 103, 101>>, JString(<<109>>)>> >>)}

\* What a server puts in `message`: "m", the text `q"r`, 7, null.
MessageFieldValues == {JString(<<109>>), JString(<<113, 34, 114>>), JNumber(7), JNull}

\* Error bodies: objects with an `error` member, a `message` member, both in
\* either order, or neither; and values that are not objects.
ErrorTrees ==
    {JObject(<<>>)}
    \cup {JObject(<< <<<<101, 114, 114, 111, 114>>, e>> >>) : e \in ErrorFieldValues}
    \cup {JObject(<< <<<<109, 101, 115, 115, 97, 103, 101>>, m>> >>) : m \in MessageFieldValues}
    \cup {JObject(<< <<<<101, 114, 114, 111, 114>>, e>>, <<<<109, 101, 115, 115, 97, 103, 101>>, m>> >>) :
            e \in ErrorFieldValues, m \in MessageFieldValues}
    \cup {JObject(<< <<<<109, 101, 115, 115, 97, 103, 101>>, m>>, <<<<101, 114, 114, 111, 114>>, e>> >>) :
            e \in ErrorFieldValues, m \in MessageFieldValues}
    \cup {JString(<<101, 114, 114, 111, 114>>), JArray(<<JString(<<101, 114, 114, 111, 114>>)>>), JNull}

ErrorBodies == UNION {BodiesOf(json) : json \in ErrorTrees} \cup BrokenBodies

\* The record keeps one call, so a run makes one.
ExtractApiErrorMessage ==
    /\ utilLast = None
    /\ \E body \in ErrorBodies :
        /\ utilLast' = [op |-> "extract_api_error_message", body |-> body,
                        result |-> extract_api_error_message(body.text)]
        /\ UNCHANGED <<hmacPrev, hmacLast, client, sigPrev, sigLast, sent,
                       recvKey, recvSig, whPrev, whLast, hdrLast, fresh,
                       handled, calls, wire>>

InitExtract ==
    /\ IdleUtil
    /\ IdleHmac /\ IdleClient /\ IdleSignature /\ IdleDispatch /\ IdleWebhook
    /\ IdleHeaders /\ IdleFresh /\ IdleResponse /\ IdleCalls

NextExtract == ExtractApiErrorMessage
SpecExtract == InitExtract /\ [][NextExtract]_vars

(* build_query_string called directly, as utils.rs's test does *)

\* Parameter keys "a", "=", "&" and values "", "?", "a b", "&=".
ParamKeys == {<<97>>, <<61>>, <<38>>}
ParamValues == {<<>>, <<63>>, <<97, 32, 98>>, <<38, 61>>}
ParamLists == SeqsUpTo(ParamKeys \X ParamValues, MaxParams)

\* The record keeps one call, so a run makes one.
BuildQueryString ==
    /\ utilLast = None
    /\ \E params \in ParamLists :
        /\ utilLast' = [op |-> "build_query_string", params |-> params,
                        result |-> build_query_string(params)]
        /\ UNCHANGED <<hmacPrev, hmacLast, client, sigPrev, sigLast, sent,
                       recvKey, recvSig, whPrev, whLast, hdrLast, fresh,
                       handled, calls, wire>>

InitQuery ==
    /\ IdleUtil
    /\ IdleHmac /\ IdleClient /\ IdleSignature /\ IdleDispatch /\ IdleWebhook
    /\ IdleHeaders /\ IdleFresh /\ IdleResponse /\ IdleCalls

NextQuery == BuildQueryString
SpecQuery == InitQuery /\ [][NextQuery]_vars

(* handle_response called with the response of a request *)

\* The status codes a server answers with: the success range's ends and
\* inside, its neighbours, the three lib.rs names, and two others.
Statuses == {199, 200, 204, 299, 300, 400, 401, 404, 429, 500}

\* The types the calls of the model expect: PingResponse (ping) and ()
\* (the operations that return Result<()>).
ExpectedTypes == {PingResponse, TUnit}

\* {"message":"m","timestamp":"t","version":"v"}
PingJson ==
    JObject(<< <<<<109, 101, 115, 115, 97, 103, 101>>, JString(<<109>>)>>, <<<<116, 105, 109, 101, 115, 116, 97, 109, 112>>, JString(<<116>>)>>,
               <<<<118, 101, 114, 115, 105, 111, 110>>, JString(<<118>>)>> >>)

\* {"code":"x","message":"bad"}
ApiErrorJson == JObject(<< <<<<99, 111, 100, 101>>, JString(<<120>>)>>, <<<<109, 101, 115, 115, 97, 103, 101>>, JString(<<98, 97, 100>>)>> >>)

\* {"page":1,"per_page":10,"total":0,"total_pages":0}
PaginationJson ==
    JObject(<< <<<<112, 97, 103, 101>>, JNumber(1)>>, <<<<112, 101, 114, 95, 112, 97, 103, 101>>, JNumber(10)>>,
               <<<<116, 111, 116, 97, 108>>, JNumber(0)>>, <<<<116, 111, 116, 97, 108, 95, 112, 97, 103, 101, 115>>, JNumber(0)>> >>)

\* Values of the expected type's own shape, and near misses of it.
DirectTrees ==
    {JNull, PingJson,
     JArray(<<JString(<<109>>), JString(<<116>>), JString(<<118>>)>>),
     JArray(<<JString(<<109>>), JString(<<116>>)>>),
     JArray(<<>>),
     JObject(<<>>),
     JObject(PingJson.v \o << <<<<101, 114, 114, 111, 114>>, ApiErrorJson>> >>),
     JObject(PingJson.v \o << <<<<101, 120, 116, 114, 97>>, JNumber(1)>> >>),
     JObject(PingJson.v \o << <<<<109, 101, 115, 115, 97, 103, 101>>, JString(<<97, 103, 97, 105, 110>>)>> >>),
     JObject(<< <<<<109, 101, 115, 115, 97, 103, 101>>, JString(<<109>>)>>, <<<<116, 105, 109, 101, 115, 116, 97, 109, 112>>, JString(<<116>>)>> >>),
     JObject(<< <<<<109, 101, 115, 115, 97, 103, 101>>, JString(<<109>>)>>, <<<<116, 105, 109, 101, 115, 116, 97, 109, 112>>, JString(<<116>>)>>,
                <<<<118, 101, 114, 115, 105, 111, 110>>, JNumber(7)>> >>),
     JString(<<111, 107>>), JNumber(5), JBool(TRUE)}

\* Values of the envelope's shape, and near misses of it.
EnvelopeTrees ==
    {JObject(members) : members \in
        {<< <<<<100, 97, 116, 97>>, PingJson>>, <<<<101, 114, 114, 111, 114>>, JNull>> >>,
         << <<<<100, 97, 116, 97>>, PingJson>> >>,
         << <<<<100, 97, 116, 97>>, PingJson>>, <<<<112, 97, 103, 105, 110, 97, 116, 105, 111, 110>>, PaginationJson>> >>,
         << <<<<100, 97, 116, 97>>, PingJson>>, <<<<112, 97, 103, 105, 110, 97, 116, 105, 111, 110>>, JObject(<< <<<<112, 97, 103, 101>>, JNumber(-1)>> >>)>> >>,
         << <<<<101, 114, 114, 111, 114>>, ApiErrorJson>> >>,
         << <<<<100, 97, 116, 97>>, PingJson>>, <<<<101, 114, 114, 111, 114>>, ApiErrorJson>> >>,
         << <<<<101, 114, 114, 111, 114>>, ApiErrorJson>>, <<<<100, 97, 116, 97>>, PingJson>> >>,
         << <<<<101, 114, 114, 111, 114>>, ApiErrorJson>>, <<<<100, 97, 116, 97>>, JNumber(5)>> >>,
         << <<<<101, 114, 114, 111, 114>>, JObject(ApiErrorJson.v \o << <<<<100, 101, 116, 97, 105, 108, 115>>, JObject(<<>>)>> >>)>> >>,
         << <<<<101, 114, 114, 111, 114>>, JObject(<< <<<<109, 101, 115, 115, 97, 103, 101>>, JString(<<98, 97, 100>>)>> >>)>> >>,
         << <<<<101, 114, 114, 111, 114>>, JString(<<100, 101, 110, 105, 101, 100>>)>> >>,
         << <<<<100, 97, 116, 97>>, JNull>> >>,
         << <<<<100, 97, 116, 97>>, JNull>>, <<<<101, 114, 114, 111, 114>>, JNull>> >>,
         << <<<<100, 97, 116, 97>>, JNumber(5)>> >>,
         << <<<<100, 97, 116, 97>>, JObject(<<>>)>> >>,
         << <<<<100, 97, 116, 97>>, PingJson>>, <<<<100, 97, 116, 97>>, PingJson>> >>,
         << <<<<112, 97, 103, 105, 110, 97, 116, 105, 111, 110>>, PaginationJson>> >>}}
    \cup {JArray(<<PingJson, JNull, JNull>>), JArray(<<JNull, ApiErrorJson, JNull>>),
          JArray(<<JNull, JNull, JNull>>), JArray(<<PingJson, JNull>>)}

ResponseTrees == DirectTrees \cup EnvelopeTrees \cup ErrorTrees

ResponseBodies == UNION {BodiesOf(json) : json \in ResponseTrees} \cup BrokenBodies

\* The record keeps one call, so a run makes one.  A response's body is read
\* or, the connection failing under it, is not.
HandleResponse ==
    /\ handled = None
    /\ \E T \in ExpectedTypes, status \in Statuses, body \in ResponseBodies,
          readable \in BOOLEAN :
        /\ handled' = [op |-> "handle_response", T |-> T, status |-> status,
                       body |-> body, readable |-> readable,
                       result |-> handle_response(T, [status |-> status, text |-> body.text,
                                                      readable |-> readable])]
        /\ UNCHANGED <<hmacPrev, hmacLast, client, sigPrev, sigLast, sent,
                       recvKey, recvSig, whPrev, whLast, hdrLast, fresh,
                       utilLast, calls, wire>>

InitResponse ==
    /\ IdleResponse
    /\ IdleHmac /\ IdleClient /\ IdleSignature /\ IdleDispatch /\ IdleWebhook
    /\ IdleHeaders /\ IdleFresh /\ IdleUtil /\ IdleCalls

NextResponse == HandleResponse
SpecResponse == InitResponse /\ [][NextResponse]_vars

(* Calls of client operations.  A caller starts an operation, which builds   *)
(* its request, hands it to the transport and awaits; then the transport     *)
(* fails or a response arrives, and the operation returns.  calls is what    *)
(* each caller holds, wire what the transport saw of each caller.            *)

\* The callers that share the client.
Callers == {"t1", "t2"}

\* A caller before its call, and the transport before it saw the caller.
NoCall == [pc |-> "idle"]
NoTraffic == [requests |-> <<>>, outcomes |-> <<>>]
NoArgs == [none |-> TRUE]

\* Amounts ("10.5", "-5"), a currency ("4"), a description ("d"), a wallet
\* label ("w"), currency pairs, targets in minutes.
Amounts == {<<49, 48, 46, 53>>, <<45, 53>>}
CurrencyId == <<52>>
OtherCurrencyId == <<54, 49>>
Targets == {0, 30}

\* The kinds of reqwest::Error a send fails with.
ReqwestErrors == {"timeout", "connect", "request"}

\* {"from_currency_id":from,"to_currency_id":to,"rate":rate,"rate_f":2,
\*  "last_updated":"t"}
RateJson(from, to, rate) ==
    JObject(<< <<<<102, 114, 111, 109, 95, 99, 117, 114, 114, 101, 110, 99, 121, 95, 105, 100>>, JString(from)>>, <<<<116, 111, 95, 99, 117, 114, 114, 101, 110, 99, 121, 95, 105, 100>>, JString(to)>>,
               <<<<114, 97, 116, 101>>, JString(rate)>>, <<<<114, 97, 116, 101, 95, 102>>, JNumber(2)>>,
               <<<<108, 97, 115, 116, 95, 117, 112, 100, 97, 116, 101, 100>>, JString(<<116>>)>> >>)

\* {"rates":[...],"last_updated":"t"}
RatesJson(rates) ==
    JObject(<< <<<<114, 97, 116, 101, 115>>, JArray(rates)>>, <<<<108, 97, 115, 116, 95, 117, 112, 100, 97, 116, 101, 100>>, JString(<<116>>)>> >>)

\* A fee with an estimate of so many minutes, and one without.
FeeJson(amount, estimated) ==
    JObject(<< <<<<99, 117, 114, 114, 101, 110, 99, 121, 95, 105, 100>>, JString(CurrencyId)>>, <<<<102, 101, 101, 95, 116, 121, 112, 101>>, JString(<<102, 105, 120, 101, 100>>)>>,
               <<<<97, 109, 111, 117, 110, 116>>, JString(amount)>>, <<<<97, 109, 111, 117, 110, 116, 95, 102>>, JNumber(1)>>,
               <<<<99, 117, 114, 114, 101, 110, 99, 121, 95, 115, 121, 109, 98, 111, 108>>, JString(<<66, 84, 67>>)>>,
               <<<<101, 115, 116, 105, 109, 97, 116, 101, 100, 95, 99, 111, 110, 102, 105, 114, 109, 97, 116, 105, 111, 110, 95, 116, 105, 109, 101>>, estimated>>,
               <<<<112, 114, 105, 111, 114, 105, 116, 121, 95, 108, 101, 118, 101, 108>>, JString(<<102, 97, 115, 116>>)>> >>)

\* {"currency_id":"4","congestion_level":"low","average_confirmation_time":10,
\*  "last_updated":"t"}
NetworkStatusJson ==
    JObject(<< <<<<99, 117, 114, 114, 101, 110, 99, 121, 95, 105, 100>>, JString(CurrencyId)>>,
               <<<<99, 111, 110, 103, 101, 115, 116, 105, 111, 110, 95, 108, 101, 118, 101, 108>>, JString(<<108, 111, 119>>)>>,
               <<<<97, 118, 101, 114, 97, 103, 101, 95, 99, 111, 110, 102, 105, 114, 109, 97, 116, 105, 111, 110, 95, 116, 105, 109, 101>>, JNumber(10)>>,
               <<<<108, 97, 115, 116, 95, 117, 112, 100, 97, 116, 101, 100>>, JString(<<116>>)>> >>)

\* A fee calculation with the fees given.
FeesJson(fees) ==
    JObject(<< <<<<99, 117, 114, 114, 101, 110, 99, 121, 95, 105, 100>>, JString(CurrencyId)>>,
               <<<<116, 114, 97, 110, 115, 97, 99, 116, 105, 111, 110, 95, 116, 121, 112, 101>>, JString(<<115, 101, 110, 100>>)>>,
               <<<<102, 101, 101, 115>>, JArray(fees)>>,
               <<<<114, 101, 99, 111, 109, 109, 101, 110, 100, 101, 100, 95, 102, 101, 101>>, FeeJson(<<49>>, JNumber(10))>>,
               <<<<110, 101, 116, 119, 111, 114, 107, 95, 115, 116, 97, 116, 117, 115>>, NetworkStatusJson>> >>)

\* A response with the text of a Value as its body.
ResponseOf(status, json) ==
    [status |-> status, text |-> RenderJson(json), readable |-> TRUE, json |-> json]

\* The responses every operation may get: an error status with an error
\* body, 401 with no body, a success status with a body that is not JSON,
\* and a body that cannot be read.
CommonResponses ==
    {ResponseOf(500, JObject(<< <<<<101, 114, 114, 111, 114>>, JString(<<101>>)>> >>)),
     [status |-> 401, text |-> <<>>, readable |-> TRUE, json |-> NotJson],
     [status |-> 200, text |-> <<110, 111, 116, 32, 106, 115, 111, 110>>, readable |-> TRUE, json |-> NotJson],
     [status |-> 200, text |-> <<>>, readable |-> FALSE, json |-> NotJson]}

\* The responses an operation may get.  The operations whose response type
\* is not decoded get no success status with a JSON body.
Responses(op) ==
    CommonResponses \cup
    (CASE op = "ping" ->
            {ResponseOf(200, PingJson),
             ResponseOf(200, JObject(<< <<<<100, 97, 116, 97>>, PingJson>> >>)),
             ResponseOf(200, JObject(<< <<<<101, 114, 114, 111, 114>>, ApiErrorJson>> >>))}
       [] op \in {"get_rate", "get_currency_rates"} ->
            {ResponseOf(200, RatesJson(<<>>)),
             ResponseOf(200, RatesJson(<<RateJson(CurrencyId, CurrencyId, <<49>>)>>)),
             ResponseOf(200, RatesJson(<<RateJson(OtherCurrencyId, CurrencyId, <<51>>),
                                         RateJson(CurrencyId, OtherCurrencyId, <<50>>),
                                         RateJson(CurrencyId, OtherCurrencyId, <<57>>)>>))}
       [] op = "get_recommended_fee" ->
            {ResponseOf(200, FeesJson(<<>>)),
             ResponseOf(200, FeesJson(<<FeeJson(<<49>>, JNumber(10)), FeeJson(<<50>>, JNumber(30)),
                                        FeeJson(<<51>>, JNull)>>))}
       [] OTHER -> {})

\* The request an operation hands to the transport, the type its request
\* function decodes the response as, and what the operation returns for the
\* request function's result.
OperationRequest(op, args, c, nowMs) ==
    CASE op = "ping" -> ping(c, nowMs)
      [] op = "create_invoice" -> create_invoice(c, nowMs, args.request)
      [] op = "create_spend_request" ->
            create_spend_request(c, nowMs, args.wallet_label, args.currency_id, args.request)
      [] op = "get_rate" -> get_rate(c, nowMs, args.from_currency, args.to_currency)
      [] op = "get_currency_rates" ->
            get_currency_rates(c, nowMs, args.currency_id, args.as_base)
      [] op = "get_recommended_fee" ->
            get_recommended_fee(c, nowMs, args.currency_id, args.target_confirmation_time)
      [] op = "get_invoices" ->
            get_invoices(c, nowMs, args.page, args.per_page, args.status, args.currency)
      [] op = "get_transactions" ->
            get_transactions(c, nowMs, args.wallet_label, args.currency_id, args.page,
                             args.per_page, args.status, args.transaction_type)

ResponseType(op) ==
    CASE op = "ping" -> PingResponse
      [] op = "create_invoice" -> CreateInvoiceResponse
      [] op = "create_spend_request" -> SpendRequestResponse
      [] op \in {"get_rate", "get_currency_rates"} -> GetRatesResponse
      [] op = "get_recommended_fee" -> FeeCalculationResponse
      [] op = "get_invoices" -> GetInvoicesResponse
      [] op = "get_transactions" -> GetTransactionsResponse

OperationReturns(op, args, response) ==
    CASE op \in {"ping", "create_invoice", "create_spend_request", "get_invoices",
                 "get_transactions"} -> response
      [] op = "get_rate" -> get_rate_returns(args.from_currency, args.to_currency, response)
      [] op = "get_currency_rates" -> get_currency_rates_returns(response)
      [] op = "get_recommended_fee" ->
            get_recommended_fee_returns(args.target_confirmation_time, response)

\* The operation op of caller t builds its request at clock nowMs, sends it
\* and awaits.
StartCall(t, op, args, nowMs) ==
    LET request == OperationRequest(op, args, client, nowMs)
    IN  /\ calls[t].pc = "idle"
        /\ calls' = [calls EXCEPT ![t] = [pc |-> "awaiting", op |-> op, args |-> args,
                                          nowMs |-> nowMs, request |-> request]]
        /\ wire' = [wire EXCEPT ![t].requests = send(@, request)]
        /\ UNCHANGED <<hmacPrev, hmacLast, client, sigPrev, sigLast, sent,
                       recvKey, recvSig, whPrev, whLast, hdrLast, fresh,
                       handled, utilLast>>

\* The awaited send of every caller ends with the outcome of one.
ReturnCall_to_all(t, sent_outcome) ==
    /\ calls[t].pc = "awaiting"
    /\ calls' = [u \in DOMAIN calls |->
                    IF calls[u].pc /= "awaiting" THEN calls[u]
                    ELSE [pc |-> "done", op |-> calls[u].op, args |-> calls[u].args,
                          nowMs |-> calls[u].nowMs, request |-> calls[u].request,
                          result |-> OperationReturns(calls[u].op, calls[u].args,
                                         request_result(ResponseType(calls[t].op),
                                                        sent_outcome))]]
    /\ wire' = [wire EXCEPT ![t].outcomes = Append(@, sent_outcome)]
    /\ UNCHANGED <<hmacPrev, hmacLast, client, sigPrev, sigLast, sent,
                   recvKey, recvSig, whPrev, whLast, hdrLast, fresh,
                   handled, utilLast>>

\* The awaited send of caller t ends with sent_outcome, and the operation
\* returns.
ReturnCall(t, sent_outcome) ==
    LET call == calls[t]
        response == request_result(ResponseType(call.op), sent_outcome)
    IN  /\ call.pc = "awaiting"
        /\ calls' = [calls EXCEPT ![t] = [pc |-> "done", op |-> call.op, args |-> call.args,
                                          nowMs |-> call.nowMs, request |-> call.request,
                                          result |-> OperationReturns(call.op, call.args,
                                                                      response)]]
        /\ wire' = [wire EXCEPT ![t].outcomes = Append(@, sent_outcome)]
        /\ UNCHANGED <<hmacPrev, hmacLast, client, sigPrev, sigLast, sent,
                       recvKey, recvSig, whPrev, whLast, hdrLast, fresh,
                       handled, utilLast>>

Ping ==
    \E t \in DOMAIN calls, nowMs \in 0..MaxClockMs : StartCall(t, "ping", NoArgs, nowMs)

CreateInvoice ==
    \E t \in DOMAIN calls, nowMs \in 0..MaxClockMs, amount \in Amounts :
        StartCall(t, "create_invoice",
                  [request |-> CreateInvoiceRequest_new(amount, CurrencyId, <<100>>)], nowMs)

CreateSpendRequest ==
    \E t \in DOMAIN calls, nowMs \in 0..MaxClockMs, amount \in Amounts :
        StartCall(t, "create_spend_request",
                  [wallet_label |-> <<119>>, currency_id |-> CurrencyId,
                   request |-> CreateSpendRequest_new(amount)], nowMs)

GetRate ==
    \E t \in DOMAIN calls, nowMs \in 0..MaxClockMs :
        StartCall(t, "get_rate",
                  [from_currency |-> CurrencyId, to_currency |-> OtherCurrencyId], nowMs)

GetCurrencyRates ==
    \E t \in DOMAIN calls, nowMs \in 0..MaxClockMs, as_base \in BOOLEAN :
        StartCall(t, "get_currency_rates",
                  [currency_id |-> CurrencyId, as_base |-> as_base], nowMs)

GetRecommendedFee ==
    \E t \in DOMAIN calls, nowMs \in 0..MaxClockMs, target \in Targets :
        StartCall(t, "get_recommended_fee",
                  [currency_id |-> CurrencyId, target_confirmation_time |-> target], nowMs)

TransportFails ==
    \E t \in DOMAIN calls, e \in ReqwestErrors :
        /\ calls[t].pc = "awaiting"
        /\ ReturnCall(t, SendFailed(e))

ResponseArrives ==
    \E t \in DOMAIN calls :
        /\ calls[t].pc = "awaiting"
        /\ \E response \in Responses(calls[t].op) : ReturnCall(t, Responded(response))

\* One caller of a client, and the callers together of the client built by
\* new("c1", "k").with_base_url("http://h").
InitCalls ==
    /\ InitClient
    /\ calls = [t \in {"t1"} |-> NoCall]
    /\ wire = [t \in {"t1"} |-> NoTraffic]
    /\ IdleHmac /\ IdleSignature /\ IdleDispatch /\ IdleWebhook /\ IdleHeaders
    /\ IdleFresh /\ IdleResponse /\ IdleUtil

InitConcurrent ==
    /\ client = with_base_url(new(<<99, 49>>, <<107>>), <<104, 116, 116, 112, 58, 47, 47, 104>>)
    /\ calls = [t \in Callers |-> NoCall]
    /\ wire = [t \in Callers |-> NoTraffic]
    /\ IdleHmac /\ IdleSignature /\ IdleDispatch /\ IdleWebhook /\ IdleHeaders
    /\ IdleFresh /\ IdleResponse /\ IdleUtil

NextCalls ==
    \/ Ping \/ CreateInvoice \/ CreateSpendRequest
    \/ GetRate \/ GetCurrencyRates \/ GetRecommendedFee
    \/ TransportFails \/ ResponseArrives

SpecCalls == InitCalls /\ [][NextCalls]_vars

SpecConcurrent == InitConcurrent /\ [][NextCalls]_vars

(* calculate_pagination called directly, as utils.rs's test does *)

\* Item counts, page numbers and page sizes: the least and greatest u32 and
\* the values of test_calculate_pagination in between.
Totals == {0, 1, 10, 25, U32_MAX - 1, U32_MAX}
PageNumbers == {0, 1, 2, 3, U32_MAX}
PerPage == {0, 1, 2, 10, U32_MAX}

\* The record keeps one call, so a run makes one.
CalculatePagination ==
    /\ utilLast = None
    /\ \E total \in Totals, page \in PageNumbers, per_page \in PerPage,
          overflow_checks \in BOOLEAN :
        /\ utilLast' = [op |-> "calculate_pagination", total |-> total, page |-> page,
                        per_page |-> per_page, overflow_checks |-> overflow_checks,
                        result |-> calculate_pagination(total, page, per_page, overflow_checks)]
        /\ UNCHANGED <<hmacPrev, hmacLast, client, sigPrev, sigLast, sent,
                       recvKey, recvSig, whPrev, whLast, hdrLast, fresh,
                       handled, calls, wire>>

InitPagination ==
    /\ IdleUtil
    /\ IdleHmac /\ IdleClient /\ IdleSignature /\ IdleDispatch /\ IdleWebhook
    /\ IdleHeaders /\ IdleFresh /\ IdleResponse /\ IdleCalls

NextPagination == CalculatePagination
SpecPagination == InitPagination /\ [][NextPagination]_vars

(* is_valid_email called directly, as utils.rs's test does *)

\* The longest address built from EmailBytes.
MaxEmailLen == 6

\* '@', '.' and 'a'.
EmailBytes == {64, 46, 97}

\* The addresses of test_is_valid_email: "test@example.com", "invalid-email",
\* "@example.com", "test@".
TestedEmails ==
    {<<116, 101, 115, 116, 64, 101, 120, 97, 109, 112, 108, 101, 46, 99, 111, 109>>, <<105, 110, 118, 97, 108, 105, 100, 45, 101, 109, 97, 105, 108>>, <<64, 101, 120, 97, 109, 112, 108, 101, 46, 99, 111, 109>>, <<116, 101, 115, 116, 64>>}

Emails == SeqsUpTo(EmailBytes, MaxEmailLen) \cup TestedEmails

\* The record keeps one call, so a run makes one.
IsValidEmail ==
    /\ utilLast = None
    /\ \E email \in Emails :
        /\ utilLast' = [op |-> "is_valid_email", email |-> email, result |-> is_valid_email(email)]
        /\ UNCHANGED <<hmacPrev, hmacLast, client, sigPrev, sigLast, sent,
                       recvKey, recvSig, whPrev, whLast, hdrLast, fresh,
                       handled, calls, wire>>

InitEmail ==
    /\ IdleUtil
    /\ IdleHmac /\ IdleClient /\ IdleSignature /\ IdleDispatch /\ IdleWebhook
    /\ IdleHeaders /\ IdleFresh /\ IdleResponse /\ IdleCalls

NextEmail == IsValidEmail
SpecEmail == InitEmail /\ [][NextEmail]_vars

(* The list operations with their filters *)

\* Page numbers and page sizes a caller asks for.
Pages == {OptionNone, OptionSome(2)}
PageSizes == {OptionNone, OptionSome(10)}

\* A filter the caller leaves out or sets to one of the variants.
Filters(variants) == {OptionNone} \cup {OptionSome(v) : v \in variants}

GetInvoices ==
    \E t \in DOMAIN calls, nowMs \in 0..MaxClockMs, page \in Pages, per_page \in PageSizes,
       status \in Filters(InvoiceStatus_variants),
       currency \in {OptionNone, OptionSome(CurrencyId)} :
        /\ page = OptionNone \/ status = OptionNone \/ currency = OptionNone
        /\ per_page = OptionNone \/ page /= OptionNone
        /\ StartCall(t, "get_invoices",
                     [page |-> page, per_page |-> per_page, status |-> status,
                      currency |-> currency], nowMs)

\* A call filters by status, by type, or by both.
GetTransactions ==
    \E t \in DOMAIN calls, nowMs \in 0..MaxClockMs, page \in Pages,
       status \in Filters(TransactionStatus_variants),
       transaction_type \in Filters(TransactionType_variants) :
        /\ \/ status = OptionNone
           \/ transaction_type = OptionNone
           \/ page = OptionNone /\ status = OptionSome(<<80, 101, 110, 100, 105, 110, 103, 82, 101, 99, 101, 105, 118, 101>>)
        /\ StartCall(t, "get_transactions",
                     [wallet_label |-> <<119>>, currency_id |-> CurrencyId, page |-> page,
                      per_page |-> OptionNone, status |-> status,
                      transaction_type |-> transaction_type], nowMs)

\* One caller of the client built by new("c1", "k").
InitFilters ==
    /\ client = new(<<99, 49>>, <<107>>)
    /\ calls = [t \in {"t1"} |-> NoCall]
    /\ wire = [t \in {"t1"} |-> NoTraffic]
    /\ IdleHmac /\ IdleSignature /\ IdleDispatch /\ IdleWebhook /\ IdleHeaders
    /\ IdleFresh /\ IdleResponse /\ IdleUtil

NextFilters == GetInvoices \/ GetTransactions \/ TransportFails \/ ResponseArrives

SpecFilters == InitFilters /\ [][NextFilters]_vars

(* A CreateInvoiceRequest built step by step: new, then builder methods,    *)
(* each at most once.  utilLast keeps the methods called, the last          *)
(* argument, the request before the last call and the request built.        *)

\* Minutes: none, one, half an hour, the most whose seconds fit u32, the
\* least whose seconds do not, the greatest u32.
Minutes == {0, 1, 30, U32_MAX \div 60, U32_MAX \div 60 + 1, U32_MAX}

\* Seconds: none, and two hours.
Seconds == {0, 7200}

\* The methods called so far hold fn.
Called(fn) == \E i \in 1..Len(utilLast.steps) : utilLast.steps[i] = fn

\* The builder is between two calls; fn has not been called.
Building(fn) ==
    /\ utilLast /= None
    /\ utilLast.op = "CreateInvoiceRequest"
    /\ ~utilLast.built.panic
    /\ ~Called(fn)

\* The call of fn with arg gave built.
Built(fn, arg, built) ==
    /\ utilLast' = [op |-> "CreateInvoiceRequest", steps |-> Append(utilLast.steps, fn),
                    arg |-> arg, before |-> utilLast.built.v, built |-> built]
    /\ UNCHANGED <<hmacPrev, hmacLast, client, sigPrev, sigLast, sent,
                   recvKey, recvSig, whPrev, whLast, hdrLast, fresh,
                   handled, calls, wire>>

NewInvoiceRequest ==
    /\ utilLast = None
    /\ \E amount \in Amounts :
        /\ utilLast' = [op |-> "CreateInvoiceRequest", steps |-> <<"new">>, arg |-> amount,
                        before |-> CreateInvoiceRequest_new(<<>>, <<>>, <<>>),
                        built |-> Computed(CreateInvoiceRequest_new(amount, CurrencyId, <<100>>))]
        /\ UNCHANGED <<hmacPrev, hmacLast, client, sigPrev, sigLast, sent,
                       recvKey, recvSig, whPrev, whLast, hdrLast, fresh,
                       handled, calls, wire>>

WithInvoiceNumber ==
    /\ Building("with_invoice_number")
    /\ Built("with_invoice_number", <<110, 49>>,
             Computed(with_invoice_number(utilLast.built.v, <<110, 49>>)))

ExpiresInSeconds ==
    /\ Building("expires_in_seconds")
    /\ \E seconds \in Seconds :
        Built("expires_in_seconds", seconds,
              Computed(expires_in_seconds(utilLast.built.v, seconds)))

ExpiresInMinutes ==
    /\ Building("expires_in_minutes")
    /\ \E minutes \in Minutes, overflow_checks \in BOOLEAN :
        Built("expires_in_minutes", minutes,
              expires_in_minutes(utilLast.built.v, minutes, overflow_checks))

AutoAcceptPayments ==
    /\ Building("auto_accept_payments")
    /\ \E auto_accept \in BOOLEAN :
        Built("auto_accept_payments", auto_accept,
              Computed(auto_accept_payments(utilLast.built.v, auto_accept)))

InitBuilder ==
    /\ IdleUtil
    /\ IdleHmac /\ IdleClient /\ IdleSignature /\ IdleDispatch /\ IdleWebhook
    /\ IdleHeaders /\ IdleFresh /\ IdleResponse /\ IdleCalls

NextBuilder ==
    \/ NewInvoiceRequest
    \/ WithInvoiceNumber
    \/ ExpiresInSeconds
    \/ ExpiresInMinutes
    \/ AutoAcceptPayments

SpecBuilder == InitBuilder /\ [][NextBuilder]_vars

(* Webhook signature checks on the headers of any request.  The client id   *)
(* and the timestamp are the texts of two request headers                   *)
(* (parse_webhook_headers copies them), so they are of any length.          *)

\* Client ids "c1" and "c11"; the timestamp of time 0 and the same text
\* without its first byte; payloads empty, "a", "b".
ReceivedClientIds == {<<99, 49>>, <<99, 49, 49>>}
ReceivedTimestamps == {format_timestamp(0), Tail(format_timestamp(0))}
ReceivedPayloads == {<<>>, <<97>>, <<98>>}

\* The signatures the sender makes of such requests, and an invalid one.
SignaturesOfReceived ==
    {SenderSignature(c, t, p) :
        c \in ReceivedClientIds, t \in ReceivedTimestamps, p \in ReceivedPayloads}
    \cup {InvalidSignature}

InitReceived ==
    /\ IdleResponse /\ IdleUtil /\ IdleCalls
    /\ recvKey \in WebhookKeys
    /\ recvSig \in SignaturesOfReceived
    /\ whPrev = None /\ whLast = None
    /\ IdleHmac /\ IdleClient /\ IdleSignature /\ IdleDispatch /\ IdleHeaders /\ IdleFresh

VerifyReceivedWebhook ==
    /\ whPrev = None
    /\ \E client_id \in ReceivedClientIds, timestamp \in ReceivedTimestamps,
          payload \in ReceivedPayloads :
        /\ whPrev' = whLast
        /\ whLast' =
              [op |-> "verify_webhook_signature",
               client_id |-> client_id, timestamp |-> timestamp, payload |-> payload,
               result |-> verify_webhook_signature(
                              recvKey,
                              [client_id |-> client_id, timestamp |-> timestamp,
                               signature |-> recvSig],
                              payload)]
        /\ UNCHANGED <<hmacPrev, hmacLast, client, sigPrev, sigLast, sent,
                       recvKey, recvSig, hdrLast, fresh,
                       handled, utilLast, calls, wire>>

NextReceived == VerifyReceivedWebhook
SpecReceived == InitReceived /\ [][NextReceived]_vars

(* The status predicates on transactions and invoices *)

\* Transactions and invoices by the fields that tell them apart here.
Transactions == [id : {<<116, 49>>, <<116, 50>>}, status : TransactionStatus_variants]
Invoices == [id : {<<105, 49>>, <<105, 50>>}, status : InvoiceStatus_variants]

Asked(fn, arg, result) == [op |-> fn, arg |-> arg, result |-> result]

UnchangedByPredicate ==
    UNCHANGED <<hmacPrev, hmacLast, client, sigPrev, sigLast, sent,
                recvKey, recvSig, whPrev, whLast, hdrLast, fresh,
                handled, calls, wire>>

\* The record keeps one call, so a run makes one.
IsTransactionCompleted ==
    /\ utilLast = None
    /\ \E transaction \in Transactions :
        utilLast' = Asked("is_transaction_completed", transaction,
                          is_transaction_completed(transaction))
    /\ UnchangedByPredicate

IsTransactionPending ==
    /\ utilLast = None
    /\ \E transaction \in Transactions :
        utilLast' = Asked("is_transaction_pending", transaction,
                          is_transaction_pending(transaction))
    /\ UnchangedByPredicate

IsTransactionFailed ==
    /\ utilLast = None
    /\ \E transaction \in Transactions :
        utilLast' = Asked("is_transaction_failed", transaction,
                          is_transaction_failed(transaction))
    /\ UnchangedByPredicate

IsInvoicePaid ==
    /\ utilLast = None
    /\ \E invoice \in Invoices :
        utilLast' = Asked("is_invoice_paid", invoice, is_invoice_paid(invoice))
    /\ UnchangedByPredicate

IsInvoiceActive ==
    /\ utilLast = None
    /\ \E invoice \in Invoices :
        utilLast' = Asked("is_invoice_active", invoice, is_invoice_active(invoice))
    /\ UnchangedByPredicate

IsInvoiceExpired ==
    /\ utilLast = None
    /\ \E invoice \in Invoices :
        utilLast' = Asked("is_invoice_expired", invoice, is_invoice_expired(invoice))
    /\ UnchangedByPredicate

IsInvoiceCancelled ==
    /\ utilLast = None
    /\ \E invoice \in Invoices :
        utilLast' = Asked("is_invoice_cancelled", invoice,
                          is_invoice_cancelled(invoice))
    /\ UnchangedByPredicate

InitStatus ==
    /\ IdleUtil
    /\ IdleHmac /\ IdleClient /\ IdleSignature /\ IdleDispatch /\ IdleWebhook
    /\ IdleHeaders /\ IdleFresh /\ IdleResponse /\ IdleCalls

NextStatus ==
    \/ IsTransactionCompleted \/ IsTransactionPending \/ IsTransactionFailed
    \/ IsInvoicePaid \/ IsInvoiceActive \/ IsInvoiceExpired \/ IsInvoiceCancelled
SpecStatus == InitStatus /\ [][NextStatus]_vars

(* The rate limit headers of a response *)

RateLimitHeaders == {"X-RateLimit-Remaining", "X-RateLimit-Limit", "X-RateLimit-Reset"}

\* Header values: numbers at and around the ends of their types, and texts
\* that are no numbers ("+5" is one for str::parse; "", "x", a byte outside
\* ASCII, "-1", "1.5" are none).
RemainingValues ==
    {RenderDigits(n) : n \in {0, 5, U32_MAX, U32_MAX + 1}}
        \cup {<<43, 53>>, <<>>, <<120>>, <<200>>}
LimitValues == {RenderDigits(n) : n \in {0, 5, 10, U32_MAX}} \cup {<<45, 49>>}
ResetValues == {RenderDigits(n) : n \in {0, U64_MAX, U64_MAX + 1}} \cup {<<49, 46, 53>>}

\* The record keeps one call, so a run makes one.
ExtractRateLimitInfo ==
    /\ utilLast = None
    /\ \E present \in SUBSET RateLimitHeaders, remaining \in RemainingValues,
          limit \in LimitValues, reset \in ResetValues, overflow_checks \in BOOLEAN :
        LET headers == [name \in present |->
                            CASE name = "X-RateLimit-Remaining" -> remaining
                              [] name = "X-RateLimit-Limit" -> limit
                              [] name = "X-RateLimit-Reset" -> reset]
        IN  utilLast' = [op |-> "extract_rate_limit_info", headers |-> headers,
                         overflow_checks |-> overflow_checks,
                         result |-> extract_rate_limit_info(headers, overflow_checks)]
    /\ UNCHANGED <<hmacPrev, hmacLast, client, sigPrev, sigLast, sent,
                   recvKey, recvSig, whPrev, whLast, hdrLast, fresh,
                   handled, calls, wire>>

InitRateLimit ==
    /\ IdleUtil
    /\ IdleHmac /\ IdleClient /\ IdleSignature /\ IdleDispatch /\ IdleWebhook
    /\ IdleHeaders /\ IdleFresh /\ IdleResponse /\ IdleCalls

NextRateLimit == ExtractRateLimitInfo
SpecRateLimit == InitRateLimit /\ [][NextRateLimit]_vars

---------------------------------------------------------------------------
(* The claims *)

\* The calls a two-call log holds.
Calls(prev, last) == {prev, last} \ {None}

\* ASCII text in upper case, byte by byte.
UpperText(s) == [i \in 1..Len(s) |-> IF s[i] \in 97..122 THEN s[i] - 32 ELSE s[i]]

\* The digits 0-9 and a-f.
LowerHexDigits == (48..57) \cup (97..102)

\* "get"
LowerGet == <<103, 101, 116>>

\* C1: generate_signature hands the signing primitive the client secret as the
\* key and, as the data, exactly client_id, timestamp, the method in upper
\* case, endpoint and body, in that order and with nothing between them (an
\* empty body adds nothing), and returns the primitive's result.
C1_SignsExactConcatenation ==
    \A call \in Calls(sigPrev, sigLast) :
        LET expected == Concat(<<client.client_id, call.timestamp,
                                 UpperText(call.method), call.endpoint, call.body>>)
        IN  /\ call.key = client.client_secret
            /\ call.data = expected
            /\ Len(call.data) = Len(client.client_id) + Len(call.timestamp)
                                + Len(call.method) + Len(call.endpoint) + Len(call.body)
            /\ call.signature = generate_hmac_signature(client.client_secret, expected)

\* A call with an empty body was followed by one with a lower-case method and
\* a body.
C1_Witness ==
    /\ sigPrev /= None /\ sigLast /= None
    /\ sigPrev.body = <<>>
    /\ sigLast.body /= <<>>
    /\ sigLast.method = LowerGet
    /\ client.client_secret /= <<>>

\* C2: every request handed to the transport carries Content-Type:
\* application/json, X-CoinPayments-Client = the client id, and a signature
\* header that is the keyed hash, under the client secret, of client id, the
\* timestamp header's own value, the request's method, the endpoint and the
\* body sent; GET and DELETE send an empty body.
C2_RequestCarriesAuthHeaders ==
    sent /= None =>
        LET r == sent.request
            ts == r.headers["X-CoinPayments-Timestamp"]
        IN  /\ DOMAIN r.headers = {"Content-Type"} \cup RequiredHeaders
            /\ r.headers["Content-Type"] = ApplicationJson
            /\ r.headers["X-CoinPayments-Client"] = client.client_id
            /\ ts \in Timestamps
            /\ r.headers["X-CoinPayments-Signature"]
                 = generate_hmac_signature(
                       client.client_secret,
                       Concat(<<client.client_id, ts, r.method, sent.endpoint, r.body>>))
            /\ r.method = (CASE sent.op = "get_request" -> GET
                             [] sent.op = "post_request" -> POST
                             [] sent.op = "put_request" -> PUT
                             [] sent.op = "delete_request" -> DELETE)
            /\ sent.op \in {"get_request", "delete_request"} => r.body = <<>>
            /\ sent.op \in {"post_request", "put_request"}
                   => r.body = serde_json_to_string(sent.body)

\* A POST with a body has been sent at a clock reading after the first.
C2_Witness ==
    /\ sent /= None
    /\ sent.op = "post_request"
    /\ sent.request.body = <<123, 125>>
    /\ sent.request.headers["X-CoinPayments-Timestamp"] = format_timestamp(MaxClockMs)

SameButBody ==
    /\ sigPrev /= None
    /\ sigPrev.timestamp = sigLast.timestamp
    /\ sigPrev.method = sigLast.method
    /\ sigPrev.endpoint = sigLast.endpoint

\* Two calls by the same client that agree on timestamp, endpoint and body.
SameButMethod ==
    /\ sigPrev /= None
    /\ sigPrev.timestamp = sigLast.timestamp
    /\ sigPrev.endpoint = sigLast.endpoint
    /\ sigPrev.body = sigLast.body

\* C4: two generate_signature calls that differ in the body alone return
\* different signatures.
C4_BodyChangesSignature ==
    (SameButBody /\ sigPrev.body /= sigLast.body)
        => sigPrev.signature /= sigLast.signature

\* A call without a body was followed by the same call with one.
C4_Witness ==
    /\ SameButBody
    /\ sigPrev.body = <<>>
    /\ sigLast.body /= <<>>
    /\ sigPrev.signature /= sigLast.signature

\* C5 as stated: two generate_signature calls that differ in the method text
\* alone return different signatures, whatever the two texts are.
C5_AnyMethodChangesSignature ==
    (SameButMethod /\ sigPrev.method /= sigLast.method)
        => sigPrev.signature /= sigLast.signature

\* C5, amended: two generate_signature calls that differ in the method alone
\* return different signatures exactly when the methods differ in upper case;
\* methods that differ only in letter case give the same signature.
C5_MethodChangesSignatureUpToCase ==
    SameButMethod =>
        ((sigPrev.signature /= sigLast.signature)
            <=> (UpperText(sigPrev.method) /= UpperText(sigLast.method)))

\* "get" was followed by "POST" in an otherwise equal call.
C5_Witness ==
    /\ SameButMethod
    /\ sigPrev.method = LowerGet
    /\ sigLast.method = POST
    /\ sigPrev.signature /= sigLast.signature

\* a and b have one length and differ in exactly one byte.
OneByteApart(a, b) ==
    /\ Len(a) = Len(b)
    /\ Cardinality({i \in 1..Len(a) : a[i] /= b[i]}) = 1

\* The triple of b is that of a with one byte of one component changed.
OneByteMutation(a, b) ==
    \/ /\ OneByteApart(a.payload, b.payload)
       /\ a.timestamp = b.timestamp /\ a.client_id = b.client_id
    \/ /\ OneByteApart(a.timestamp, b.timestamp)
       /\ a.payload = b.payload /\ a.client_id = b.client_id
    \/ /\ OneByteApart(a.client_id, b.client_id)
       /\ a.payload = b.payload /\ a.timestamp = b.timestamp

\* The triples a webhook check is called with.
Triples ==
    [client_id : ClientIds, timestamp : WebhookTimestamps, payload : WebhookPayloads]

\* The keyed hash of a triple's client id, timestamp and raw payload.
KeyedHashOf(key, triple) ==
    generate_hmac_signature(key, triple.client_id \o triple.timestamp \o triple.payload)

\* C6: when the received signature is the keyed hash, under the receiver's
\* private key, of client id, timestamp and raw payload of a triple,
\* verify_webhook_signature returns true for that triple and false for every
\* triple that is one byte of the payload, of the timestamp or of the client
\* id away from it.
C6_VerifiesExactlyTheSignedTriple ==
    \A call \in Calls(whPrev, whLast) :
        /\ recvSig = KeyedHashOf(recvKey, call) => call.result
        /\ \A signed \in Triples :
              (OneByteMutation(signed, call) /\ recvSig = KeyedHashOf(recvKey, signed))
                  => ~call.result

\* A triple verified, and then the same triple with one payload byte changed
\* did not.
C6_Witness ==
    /\ whPrev /= None
    /\ whPrev.op = "verify_webhook_signature"
    /\ whPrev.result
    /\ OneByteApart(whPrev.payload, whLast.payload)
    /\ whPrev.timestamp = whLast.timestamp /\ whPrev.client_id = whLast.client_id
    /\ ~whLast.result

\* C7: for one private key, client id, timestamp and received signature,
\* validate_webhook_signature never accepts two payloads that differ in a
\* byte.
C7_DistinctPayloadsNeverBothValidate ==
    (/\ whPrev /= None
     /\ whPrev.client_id = whLast.client_id
     /\ whPrev.timestamp = whLast.timestamp
     /\ whPrev.payload /= whLast.payload) => ~(whPrev.result /\ whLast.result)

\* C8: parse_webhook_headers returns the map's own three values when all
\* three headers are present, and otherwise fails with a message that names
\* a header the map lacks.
C8_ParsesOrNamesMissingHeader ==
    hdrLast /= None =>
        LET m == hdrLast.header_map
            r == hdrLast.result
        IN  IF RequiredHeaders \subseteq DOMAIN m
            THEN /\ r.ok
                 /\ r.client_id = m["X-CoinPayments-Client"]
                 /\ r.timestamp = m["X-CoinPayments-Timestamp"]
                 /\ r.signature = m["X-CoinPayments-Signature"]
            ELSE /\ ~r.ok
                 /\ r.error = "Api"
                 /\ \E h \in RequiredHeaders \ DOMAIN m :
                        r.message = "Missing " \o h \o " header"

\* A map with the client and timestamp headers and no signature header was
\* refused.
C8_Witness ==
    /\ hdrLast /= None
    /\ "X-CoinPayments-Client" \in DOMAIN hdrLast.header_map
    /\ "X-CoinPayments-Timestamp" \in DOMAIN hdrLast.header_map
    /\ "X-CoinPayments-Signature" \notin DOMAIN hdrLast.header_map
    /\ ~hdrLast.result.ok

\* The Unix time of a well-formed timestamp text.
InstantOf(timestamp) == timestamp.local - timestamp.offset

\* C9: for a timestamp that parses to an instant at or after the epoch,
\* is_webhook_timestamp_valid is true exactly when max(now - instant, 0) is at
\* most the tolerance, in whole seconds.
C9_ValidIffAgeWithinTolerance ==
    (fresh /= None /\ fresh.timestamp.wellformed /\ InstantOf(fresh.timestamp) >= 0)
        => (fresh.result
              <=> Max(fresh.now - InstantOf(fresh.timestamp), 0) <= fresh.tolerance_seconds)

\* A timestamp exactly tolerance seconds old, written with a UTC offset, passed.
C9_Witness ==
    /\ fresh /= None
    /\ fresh.timestamp.wellformed
    /\ fresh.timestamp.offset /= 0
    /\ InstantOf(fresh.timestamp) >= 0
    /\ fresh.tolerance_seconds > 0
    /\ fresh.now - InstantOf(fresh.timestamp) = fresh.tolerance_seconds
    /\ fresh.result

\* C10: is_webhook_timestamp_valid returns true only for a timestamp that
\* parses and whose age, now - instant, is at most the tolerance.
C10_AcceptsOnlyWithinTolerance ==
    (fresh /= None /\ fresh.result)
        => /\ fresh.timestamp.wellformed
           /\ fresh.now - InstantOf(fresh.timestamp) <= fresh.tolerance_seconds

\* The positions of the members called key in an object's text.
MembersAt(json, key) == {i \in 1..Len(json.v) : json.v[i][1] = key}

\* The text of the top-level member `key` of a body's Value, when the Value
\* is an object that has the member and the member is a string.  The member
\* is the last one of that name where a text repeats the name.
TopLevelString(json, key) ==
    IF json.t /= "obj" \/ MembersAt(json, key) = {} THEN OptionNone
    ELSE LET last == CHOOSE i \in MembersAt(json, key) :
                         \A j \in MembersAt(json, key) : j <= i
         IN  IF json.v[last][2].t = "str" THEN OptionSome(json.v[last][2].v)
             ELSE OptionNone

\* C14: extract_api_error_message returns the top-level `error` member when
\* the body is JSON and the member is a string, otherwise the top-level
\* `message` member when it is a string, and otherwise (the member is absent
\* or not a string, `error` is an object, the body is not an object or not
\* JSON) the body text as it came.
C14_ErrorThenMessageThenRawText ==
    (utilLast /= None /\ utilLast.op = "extract_api_error_message") =>
        LET error == TopLevelString(utilLast.body.json, <<101, 114, 114, 111, 114>>)
            message == TopLevelString(utilLast.body.json, <<109, 101, 115, 115, 97, 103, 101>>)
        IN  utilLast.result =
                (IF error.t = "Some" THEN error.v
                 ELSE IF message.t = "Some" THEN message.v
                 ELSE utilLast.body.text)

\* A body whose `error` is an object and whose `message`, written with an
\* escaped quote, is a string gave the message.
C14_Witness ==
    /\ utilLast /= None
    /\ utilLast.op = "extract_api_error_message"
    /\ utilLast.body.json.t = "obj"
    /\ Len(utilLast.body.json.v) = 2
    /\ utilLast.body.json.v[1][1] = <<101, 114, 114, 111, 114>>
    /\ utilLast.body.json.v[1][2].t = "obj"
    /\ utilLast.result = <<113, 34, 114>>
    /\ Len(utilLast.body.text) > Len(RenderJson(utilLast.body.json))

\* How many times the byte b occurs in s.
Count(s, b) == Cardinality({i \in 1..Len(s) : s[i] = b})

RECURSIVE PairsUpTo(_, _)
\* "?" and the first n parameters, each as urlencode(key)=urlencode(value),
\* with "&" before every one but the first.
PairsUpTo(params, n) ==
    IF n = 0 THEN <<63>>
    ELSE PairsUpTo(params, n - 1)
         \o (IF n > 1 THEN <<38>> ELSE <<>>)
         \o urlencoding_encode(params[n][1]) \o <<61>> \o urlencoding_encode(params[n][2])

\* C15: build_query_string returns the empty text for no parameters and
\* otherwise "?" followed by urlencode(key)=urlencode(value) for each
\* parameter in input order, joined by "&"; for n >= 1 parameters the text
\* has exactly one '?', n '=' and n - 1 '&'.
C15_QueryStringIsEncodedPairs ==
    (utilLast /= None /\ utilLast.op = "build_query_string") =>
        LET params == utilLast.params
            n == Len(params)
            out == utilLast.result
        IN  IF n = 0 THEN out = <<>>
            ELSE /\ out = PairsUpTo(params, n)
                 /\ Count(out, 63) = 1
                 /\ Count(out, 61) = n
                 /\ Count(out, 38) = n - 1

\* Two parameters whose keys and values hold '=', '&' and '?' were encoded.
C15_Witness ==
    /\ utilLast /= None
    /\ utilLast.op = "build_query_string"
    /\ Len(utilLast.params) = 2
    /\ utilLast.params[1] = <<<<61>>, <<38, 61>>>>
    /\ utilLast.params[2] = <<<<38>>, <<63>>>>
    /\ utilLast.result = <<63, 37, 51, 68, 61, 37, 50, 54, 37, 51, 68, 38, 37, 50, 54, 61, 37, 51, 70>>

\* handle_response was called and read the response's body.
Handled == handled /= None /\ handled.readable

\* C11: for a status outside 200-299 and any body, handle_response returns a
\* failure: Authentication for 401, NotFound for 404, RateLimit for 429, and
\* for every other status an Api error "HTTP <status>: <message>" with that
\* status and the message extract_api_error_message's rule gives for the body
\* (`error` if a string, else `message` if a string, else the body text).
C11_ErrorStatusNeverSucceeds ==
    (Handled /\ ~(handled.status \in 200..299)) =>
        LET r == handled.result
            error == TopLevelString(handled.body.json, <<101, 114, 114, 111, 114>>)
            message == TopLevelString(handled.body.json, <<109, 101, 115, 115, 97, 103, 101>>)
        IN  /\ ~r.ok
            /\ handled.status = 401 => r.error = "Authentication"
            /\ handled.status = 404 => r.error = "NotFound"
            /\ handled.status = 429 => r.error = "RateLimit"
            /\ handled.status \notin {401, 404, 429} =>
                  /\ r.error = "Api"
                  /\ r.format = "HTTP {}: {}"
                  /\ r.status.code = handled.status
                  /\ r.text = (IF error.t = "Some" THEN error.v
                               ELSE IF message.t = "Some" THEN message.v
                               ELSE handled.body.text)

\* A 404 whose body would decode as the expected type was refused as
\* NotFound.
C11_Witness ==
    /\ Handled
    /\ handled.status = 404
    /\ handled.T = PingResponse
    /\ handled.body.json = PingJson
    /\ handled.result.error = "NotFound"

\* What a text gives for a field of a struct: the member of that name of an
\* object, the element at the field's place of an array, null if there is
\* none.
Given(json, key, index) ==
    IF json.t = "obj"
    THEN IF MembersAt(json, key) = {} THEN JNull
         ELSE json.v[CHOOSE i \in MembersAt(json, key) : TRUE][2]
    ELSE IF index <= Len(json.v) THEN json.v[index] ELSE JNull

\* The value is an object that names none of the keys twice, or an array of
\* n elements.
StructOf(json, keys, n) ==
    \/ json.t = "obj" /\ \A k \in keys : Cardinality(MembersAt(json, k)) <= 1
    \/ json.t = "arr" /\ Len(json.v) = n

\* The value has PingResponse's shape: three strings.
PingShape(json) ==
    /\ StructOf(json, {<<109, 101, 115, 115, 97, 103, 101>>, <<116, 105, 109, 101, 115, 116, 97, 109, 112>>, <<118, 101, 114, 115, 105, 111, 110>>}, 3)
    /\ Given(json, <<109, 101, 115, 115, 97, 103, 101>>, 1).t = "str"
    /\ Given(json, <<116, 105, 109, 101, 115, 116, 97, 109, 112>>, 2).t = "str"
    /\ Given(json, <<118, 101, 114, 115, 105, 111, 110>>, 3).t = "str"

\* The value has ApiError's shape: a code and a message, both strings.
ApiErrorShape(json) ==
    /\ StructOf(json, {<<99, 111, 100, 101>>, <<109, 101, 115, 115, 97, 103, 101>>, <<100, 101, 116, 97, 105, 108, 115>>}, 3)
    /\ Given(json, <<99, 111, 100, 101>>, 1).t = "str"
    /\ Given(json, <<109, 101, 115, 115, 97, 103, 101>>, 2).t = "str"

\* The value has PaginationMetadata's shape: four numbers, none negative.
PaginationShape(json) ==
    /\ StructOf(json, {<<112, 97, 103, 101>>, <<112, 101, 114, 95, 112, 97, 103, 101>>, <<116, 111, 116, 97, 108>>, <<116, 111, 116, 97, 108, 95, 112, 97, 103, 101, 115>>}, 4)
    /\ \A f \in {<<<<112, 97, 103, 101>>, 1>>, <<<<112, 101, 114, 95, 112, 97, 103, 101>>, 2>>, <<<<116, 111, 116, 97, 108>>, 3>>, <<<<116, 111, 116, 97, 108, 95, 112, 97, 103, 101, 115>>, 4>>} :
          /\ Given(json, f[1], f[2]).t = "num"
          /\ Given(json, f[1], f[2]).v >= 0

\* The value has the expected type's own shape.
DirectShape(T, json) == IF T = TUnit THEN json.t = "null" ELSE PingShape(json)

\* The value read as the expected type.
DirectValue(T, json) ==
    IF T = TUnit THEN UnitValue
    ELSE StructValue("PingResponse",
                     <<Given(json, <<109, 101, 115, 115, 97, 103, 101>>, 1), Given(json, <<116, 105, 109, 101, 115, 116, 97, 109, 112>>, 2),
                       Given(json, <<118, 101, 114, 115, 105, 111, 110>>, 3)>>)

\* The value has the envelope's shape: data, error and pagination are each
\* absent, null or of their type's shape.
EnvelopeShape(T, json) ==
    /\ StructOf(json, {<<100, 97, 116, 97>>, <<101, 114, 114, 111, 114>>, <<112, 97, 103, 105, 110, 97, 116, 105, 111, 110>>}, 3)
    /\ LET data == Given(json, <<100, 97, 116, 97>>, 1)
           error == Given(json, <<101, 114, 114, 111, 114>>, 2)
           pagination == Given(json, <<112, 97, 103, 105, 110, 97, 116, 105, 111, 110>>, 3)
       IN  /\ data.t = "null" \/ DirectShape(T, data)
           /\ error.t = "null" \/ ApiErrorShape(error)
           /\ pagination.t = "null" \/ PaginationShape(pagination)

\* handle_response was called with a success status and read the body.
HandledSuccess == Handled /\ handled.status \in 200..299

\* C12: for a success status, a body of the expected type's own shape is
\* returned as that value, whatever else it holds; only a body that is not
\* of that shape is read as the envelope, and then an envelope with an error
\* gives the Api error "API Error: <error.message>" (also when it has data),
\* one with data and no error gives Ok(data), and one with neither gives the
\* Api error "No data in response".
C12_DirectThenEnvelope ==
    HandledSuccess =>
        LET r == handled.result
            json == handled.body.json
            T == handled.T
        IN  IF DirectShape(T, json)
            THEN r.ok /\ r.value = DirectValue(T, json)
            ELSE EnvelopeShape(T, json) =>
                    LET data == Given(json, <<100, 97, 116, 97>>, 1)
                        error == Given(json, <<101, 114, 114, 111, 114>>, 2)
                    IN  IF error.t /= "null"
                        THEN /\ ~r.ok /\ r.error = "Api"
                             /\ r.format = "API Error: {}"
                             /\ r.text = Given(error, <<109, 101, 115, 115, 97, 103, 101>>, 2).v
                        ELSE IF data.t /= "null"
                        THEN r.ok /\ r.value = DirectValue(T, data)
                        ELSE /\ ~r.ok /\ r.error = "Api"
                             /\ r.format = "No data in response"

\* An envelope with data and an error gave the error's message.
C12_Witness ==
    /\ HandledSuccess
    /\ handled.T = PingResponse
    /\ handled.body.json.t = "obj"
    /\ Len(handled.body.json.v) = 2
    /\ handled.body.json.v[1] = <<<<100, 97, 116, 97>>, PingJson>>
    /\ handled.body.json.v[2] = <<<<101, 114, 114, 111, 114>>, ApiErrorJson>>
    /\ ~handled.result.ok
    /\ handled.result.text = <<98, 97, 100>>

\* C13: for a success status, handle_response returns Ok only for a body of
\* the expected type's own shape or of the envelope's shape with data and no
\* error; a body of neither shape, valid JSON or not, gives the Api error
\* "Failed to parse response: <diagnostic> - Response: <body>" with the
\* diagnostic of the decode as the expected type and the body text as it
\* came.
C13_OkOnlyForDirectOrEnvelopeData ==
    HandledSuccess =>
        LET r == handled.result
            json == handled.body.json
            T == handled.T
        IN  /\ r.ok => \/ DirectShape(T, json)
                       \/ /\ EnvelopeShape(T, json)
                          /\ Given(json, <<100, 97, 116, 97>>, 1).t /= "null"
                          /\ Given(json, <<101, 114, 114, 111, 114>>, 2).t = "null"
            /\ (~DirectShape(T, json) /\ ~EnvelopeShape(T, json)) =>
                  /\ ~r.ok /\ r.error = "Api"
                  /\ r.format = "Failed to parse response: {} - Response: {}"
                  /\ r.diagnostic = serde_json_from_str(T, handled.body.text).diagnostic
                  /\ r.text = handled.body.text

\* A JSON body of neither shape, {"data":5}, was refused with the diagnostic
\* of the decode as PingResponse, which is not the envelope decode's.
C13_Witness ==
    /\ HandledSuccess
    /\ handled.T = PingResponse
    /\ handled.body.json = JObject(<< <<<<100, 97, 116, 97>>, JNumber(5)>> >>)
    /\ ~handled.result.ok
    /\ handled.result.diagnostic = [msg |-> "missing field", arg |-> <<109, 101, 115, 115, 97, 103, 101>>]
    /\ handled.result.diagnostic
         /= serde_json_from_str(ApiResponse(PingResponse), handled.body.text).diagnostic

\* part occurs in text as a run of consecutive bytes.
Occurs(part, text) ==
    \E i \in 1..(Len(text) - Len(part) + 1) : SubSeq(text, i, i + Len(part) - 1) = part

\* The texts a request puts on the wire: method, URL, header values, body.
WireTexts(request) ==
    {request.method, request.url, request.body}
        \cup {request.headers[h] : h \in DOMAIN request.headers}

\* C19: a request carries the client secret nowhere.  Its URL, its body, its
\* Content-Type, client and timestamp headers are written from the base URL,
\* the endpoint, the query parameters, the body value, the client id and the
\* clock; the one remaining header is the keyed hash, under the secret, of a
\* text the secret is no part of; and a secret that is not empty occurs in
\* none of the texts sent.
C19_SecretOnlyKeysTheSignature ==
    sent /= None =>
        LET request == sent.request
            secret == client.client_secret
            timestamp == request.headers["X-CoinPayments-Timestamp"]
            query == IF sent.op = "get_request"
                     THEN build_query_string(sent.query_params) ELSE <<>>
            body == IF sent.op \in {"post_request", "put_request"}
                    THEN serde_json_to_string(sent.body) ELSE <<>>
            signed == Concat(<<client.client_id, timestamp, request.method,
                               sent.endpoint, body>>)
        IN  /\ DOMAIN request.headers =
                  {"Content-Type", "X-CoinPayments-Client",
                   "X-CoinPayments-Timestamp", "X-CoinPayments-Signature"}
            /\ request.url = client.base_url \o <<47>> \o sent.endpoint \o query
            /\ request.body = body
            /\ request.headers["Content-Type"] = ApplicationJson
            /\ request.headers["X-CoinPayments-Client"] = client.client_id
            /\ timestamp \in Timestamps
            /\ request.headers["X-CoinPayments-Signature"]
                   = generate_hmac_signature(secret, signed)
            /\ ~Occurs(secret, signed) \/ secret = <<>>
            /\ secret /= <<>> => \A text \in WireTexts(request) : ~Occurs(secret, text)

\* A client whose secret is "k" sent a POST request with a body.
C19_Witness ==
    /\ sent /= None
    /\ client.client_secret = <<107>>
    /\ sent.op = "post_request"
    /\ sent.request.body /= <<>>

\* The calls that returned after their send failed at the transport.
FailedAtTransport ==
    {t \in DOMAIN calls :
        /\ calls[t].pc = "done"
        /\ Len(wire[t].outcomes) = 1
        /\ wire[t].outcomes[1].kind = "failed"}

\* C16: an operation whose send failed at the transport (connection
\* failure, timeout or any other send error) returns an error of the Network
\* kind.
C16_TransportFailureReturnsNetwork ==
    \A t \in FailedAtTransport :
        /\ ~calls[t].result.ok
        /\ calls[t].result.error = "Network"

\* The calls of create_invoice and create_spend_request whose amount
\* is_valid_amount rejects.
CalledWithInvalidAmount ==
    {t \in DOMAIN calls :
        /\ calls[t].pc /= "idle"
        /\ calls[t].op \in {"create_invoice", "create_spend_request"}
        /\ ~is_valid_amount(calls[t].args.request.amount)}

\* C17: an operation called with an amount that is_valid_amount rejects has
\* returned InvalidParameters and no request of the call has reached the
\* transport.
C17_InvalidAmountIsRefusedLocally ==
    \A t \in CalledWithInvalidAmount :
        /\ wire[t].requests = <<>>
        /\ calls[t].pc = "done"
        /\ ~calls[t].result.ok
        /\ calls[t].result.error = "InvalidParameters"

\* C18: a call hands at most one request to the transport: none before it
\* starts, one while it awaits, and it has returned, with no further
\* request, once the outcome of that one send is there, whether the send
\* failed, the status was an error or the body did not decode.
C18_AtMostOneRequestPerCall ==
    \A t \in DOMAIN calls :
        /\ Len(wire[t].requests) <= 1
        /\ calls[t].pc = "idle" => wire[t] = NoTraffic
        /\ calls[t].pc = "awaiting" =>
              Len(wire[t].requests) = 1 /\ wire[t].outcomes = <<>>
        /\ calls[t].pc = "done" <=> Len(wire[t].outcomes) = 1

\* get_rate returned an error after its send failed, get_currency_rates
\* after an error status, or get_recommended_fee after a body that did not
\* decode, and the transport was handed one request.
C18_Witness ==
    \E t \in DOMAIN calls :
        /\ calls[t].pc = "done"
        /\ ~calls[t].result.ok
        /\ Len(wire[t].requests) = 1
        /\ \/ calls[t].op = "get_rate" /\ wire[t].outcomes[1].kind = "failed"
           \/ /\ calls[t].op = "get_currency_rates"
              /\ wire[t].outcomes[1].kind = "response"
              /\ wire[t].outcomes[1].response.status = 500
           \/ /\ calls[t].op = "get_recommended_fee"
              /\ wire[t].outcomes[1].kind = "response"
              /\ wire[t].outcomes[1].response.status = 200
              /\ wire[t].outcomes[1].response.json = NotJson

\* C20: whatever the interleaving of the callers, the client keeps its
\* client_id, client_secret and base_url; the request of a call is the one
\* its operation builds from the call's own arguments and clock reading, and
\* it is the one request the transport got from that caller; the result of a
\* call is what its operation makes of the outcome of that caller's own send.
C20_CallsShareNothing ==
    /\ [][client' = client]_vars
    /\ [](\A t \in DOMAIN calls :
            LET call == calls[t]
            IN  /\ call.pc /= "idle" =>
                      /\ call.request =
                             OperationRequest(call.op, call.args, client, call.nowMs)
                      /\ wire[t].requests = <<call.request>>
                /\ call.pc = "done" =>
                      /\ Len(wire[t].outcomes) = 1
                      /\ call.result =
                             OperationReturns(call.op, call.args,
                                              request_result(ResponseType(call.op),
                                                             wire[t].outcomes[1])))

\* On a client with a base URL of its own, one caller's ping returned Ok
\* while the other caller's create_invoice, started at another clock reading,
\* was still awaiting.
C20_Witness ==
    /\ DOMAIN calls = Callers
    /\ calls["t1"].pc = "done"
    /\ calls["t1"].op = "ping"
    /\ calls["t1"].result.ok
    /\ calls["t2"].pc = "awaiting"
    /\ calls["t2"].op = "create_invoice"
    /\ calls["t2"].nowMs /= calls["t1"].nowMs
    /\ client.base_url /= API_BASE_URL
\* The least number of pages of per_page items that hold total items.
CeilDiv(total, per_page) ==
    CHOOSE n \in 0..total : n * per_page >= total /\ (n = 0 \/ (n - 1) * per_page < total)

\* C21: for every u32 total and page and every u32 per_page >= 1,
\* calculate_pagination returns page, per_page and total unchanged,
\* total_pages = ceil(total / per_page), has_next = (page < total_pages) and
\* has_prev = (page > 1).
C21_PaginationIsCeilingDivision ==
    (utilLast /= None /\ utilLast.op = "calculate_pagination" /\ utilLast.per_page >= 1) =>
        /\ ~utilLast.result.panic
        /\ utilLast.result.page = utilLast.page
        /\ utilLast.result.per_page = utilLast.per_page
        /\ utilLast.result.total = utilLast.total
        /\ utilLast.result.total_pages = CeilDiv(utilLast.total, utilLast.per_page)
        /\ utilLast.result.has_next = (utilLast.page < CeilDiv(utilLast.total, utilLast.per_page))
        /\ utilLast.result.has_prev = (utilLast.page > 1)
\* C22: is_valid_email returns false for every string that has no '@', for
\* every string that starts with '@' and for every string that ends with
\* '@', and returns true for "test@example.com".
C22_EmailNeedsLocalPartAndDomain ==
    (utilLast /= None /\ utilLast.op = "is_valid_email") =>
        LET email == utilLast.email
        IN  /\ (\A i \in 1..Len(email) : email[i] /= 64) => ~utilLast.result
            /\ (email /= <<>> /\ email[1] = 64) => ~utilLast.result
            /\ (email /= <<>> /\ email[Len(email)] = 64) => ~utilLast.result
            /\ email = <<116, 101, 115, 116, 64, 101, 120, 97, 109, 112, 108, 101, 46, 99, 111, 109>> => utilLast.result
\* The URL's query string holds the parameter key=value.
HasParam(url, key, value) ==
    \E i \in 1..Len(url) :
        LET last == i + Len(key) + Len(value) + 1
        IN  /\ url[i] \in {63, 38}
            /\ last <= Len(url)
            /\ SubSeq(url, i + 1, last) = key \o <<61>> \o value
            /\ last = Len(url) \/ url[last + 1] = 38

\* C23: for every status or type variant, the filter value get_invoices
\* (status) and get_transactions (status, type) put in the query string is the
\* name under which serde reads and writes the variant by the enum's
\* case-conversion rule: lowercase for InvoiceStatus, camelCase for
\* TransactionStatus and TransactionType.
C23_FilterIsTheSerializedName ==
    \A t \in DOMAIN calls :
        LET call == calls[t]
        IN  /\ (call.pc /= "idle" /\ call.op = "get_invoices" /\ call.args.status.t = "Some") =>
                /\ apply_to_variant("lowercase", call.args.status.v) \in InvoiceStatus.variants
                /\ HasParam(call.request.url, <<115, 116, 97, 116, 117, 115>>,
                            apply_to_variant("lowercase", call.args.status.v))
            /\ (call.pc /= "idle" /\ call.op = "get_transactions"
                    /\ call.args.status.t = "Some") =>
                /\ apply_to_variant("camelCase", call.args.status.v)
                        \in TransactionStatus.variants
                /\ HasParam(call.request.url, <<115, 116, 97, 116, 117, 115>>,
                            apply_to_variant("camelCase", call.args.status.v))
            /\ (call.pc /= "idle" /\ call.op = "get_transactions"
                    /\ call.args.transaction_type.t = "Some") =>
                /\ apply_to_variant("camelCase", call.args.transaction_type.v)
                        \in TransactionType.variants
                /\ HasParam(call.request.url, <<116, 121, 112, 101>>,
                            apply_to_variant("camelCase", call.args.transaction_type.v))
\* The fee the claim names for a target: among the fees with an estimate, if
\* there are any, and else among all of them, the first whose distance to
\* the target is least.  (A fee without an estimate stands u32::MAX minutes
\* away, farther than every estimate.)
BestMatch(fees, target) ==
    LET estimated == {i \in 1..Len(fees) : fees[i].v[6].t = "Some"}
        candidates == IF estimated = {} THEN 1..Len(fees) ELSE estimated
        distance(i) == IF i \in estimated THEN abs(fees[i].v[6].v.v - target) ELSE 0
    IN  fees[CHOOSE i \in candidates :
                 \A j \in candidates :
                     distance(i) < distance(j) \/ (distance(i) = distance(j) /\ i <= j)]

\* C24: get_recommended_fee returns, among the fees of the response, one whose
\* |estimated_confirmation_time - target| is minimal, a fee without an
\* estimate counting as u32::MAX minutes (chosen only when no fee has an
\* estimate), the first such fee on ties; with an empty fee list it returns
\* the Api error "No suitable fee found for target confirmation time".
C24_ReturnsTheBestMatchingFee ==
    \A t \in DOMAIN calls :
        (calls[t].pc = "done" /\ calls[t].op = "get_recommended_fee") =>
            LET response == request_result(FeeCalculationResponse, wire[t].outcomes[1])
                target == calls[t].args.target_confirmation_time
            IN  response.ok =>
                    IF response.value.v[3].v = <<>>
                    THEN /\ ~calls[t].result.ok
                         /\ calls[t].result.error = "Api"
                         /\ calls[t].result.format
                                = "No suitable fee found for target confirmation time"
                    ELSE calls[t].result = Ok(BestMatch(response.value.v[3].v, target))
\* C25: expires_in_minutes(m) sets expires_in to Some(60 * m) for every u32 m
\* and leaves every other field of the request unchanged; a request built by
\* CreateInvoiceRequest::new on which no expiry was set has
\* expires_in = Some(3600).
C25_MinutesAreSixtySeconds ==
    (utilLast /= None /\ utilLast.op = "CreateInvoiceRequest") =>
        /\ utilLast.steps[Len(utilLast.steps)] = "expires_in_minutes" =>
            /\ ~utilLast.built.panic
            /\ utilLast.built.v
                 = [utilLast.before EXCEPT !.expires_in = OptionSome(60 * utilLast.arg)]
        /\ (~Called("expires_in_minutes") /\ ~Called("expires_in_seconds")) =>
            utilLast.built.v.expires_in = OptionSome(3600)
\* C26: for one private key and one received signature,
\* verify_webhook_signature returns true for at most one (client_id,
\* timestamp, payload) triple: two checks of triples that differ in a
\* component do not both succeed.
C26_SignatureVerifiesOneTriple ==
    (/\ whPrev /= None
     /\ whPrev.op = "verify_webhook_signature"
     /\ whLast.op = "verify_webhook_signature"
     /\ <<whPrev.client_id, whPrev.timestamp, whPrev.payload>>
            /= <<whLast.client_id, whLast.timestamp, whLast.payload>>)
        => ~(whPrev.result /\ whLast.result)
\* The URL without its query string: the bytes before the first '?'.
PathOf(url) ==
    LET marks == {i \in 1..Len(url) : url[i] = 63}
    IN  IF marks = {} THEN url
        ELSE SubSeq(url, 1, (CHOOSE i \in marks : \A j \in marks : i <= j) - 1)

\* Two calls of the client that sent GET requests to one endpoint with one
\* timestamp.
SameGet(a, b) ==
    /\ a.pc /= "idle" /\ b.pc /= "idle"
    /\ a.request.method = GET /\ b.request.method = GET
    /\ PathOf(a.request.url) = PathOf(b.request.url)
    /\ a.request.headers["X-CoinPayments-Timestamp"]
         = b.request.headers["X-CoinPayments-Timestamp"]

\* C27: the signature of a GET request does not depend on its query
\* parameters: two GET requests by the same client to the same endpoint with
\* the same timestamp carry the same signature, whatever their query strings.
C27_GetSignatureIgnoresQuery ==
    \A t \in DOMAIN calls, u \in DOMAIN calls :
        SameGet(calls[t], calls[u]) =>
            calls[t].request.headers["X-CoinPayments-Signature"]
                = calls[u].request.headers["X-CoinPayments-Signature"]

\* Two such requests whose URLs differ.
C27_Witness ==
    /\ DOMAIN calls = Callers
    /\ SameGet(calls["t1"], calls["t2"])
    /\ calls["t1"].request.url /= calls["t2"].request.url
\* {"data":null}
DataNullJson == JObject(<< <<<<100, 97, 116, 97>>, JNull>> >>)

\* C28: for an operation whose result type is unit, a success-status response
\* yields Ok only when the body is the JSON literal null; a success-status
\* response with an empty body, with {} or with an envelope whose data is
\* null yields an Api error.
C28_UnitResultNeedsNullBody ==
    (/\ handled /= None
     /\ handled.T = TUnit
     /\ handled.readable
     /\ is_success(handled.status)) =>
        /\ handled.result.ok <=> handled.body.json = JNull
        /\ (\/ handled.body.text = <<>>
            \/ handled.body.json = JObject(<<>>)
            \/ handled.body.json = DataNullJson)
                => (~handled.result.ok /\ handled.result.error = "Api")

\* A unit operation got 200 with {"data":null} and returned the Api error
\* "No data in response".
C28_Witness ==
    /\ handled /= None
    /\ handled.T = TUnit
    /\ handled.readable
    /\ handled.status = 200
    /\ handled.body.json = DataNullJson
    /\ ~handled.result.ok
    /\ handled.result.error = "Api"
    /\ handled.result.format = "No data in response"
TransactionPredicates ==
    {"is_transaction_completed", "is_transaction_pending", "is_transaction_failed"}
InvoicePredicates ==
    {"is_invoice_paid", "is_invoice_active", "is_invoice_expired", "is_invoice_cancelled"}

\* The predicates that hold of a transaction, and of an invoice, by name.
HoldingOfTransaction(transaction) ==
    {fn \in TransactionPredicates :
        CASE fn = "is_transaction_completed" -> is_transaction_completed(transaction)
          [] fn = "is_transaction_pending" -> is_transaction_pending(transaction)
          [] fn = "is_transaction_failed" -> is_transaction_failed(transaction)}
HoldingOfInvoice(invoice) ==
    {fn \in InvoicePredicates :
        CASE fn = "is_invoice_paid" -> is_invoice_paid(invoice)
          [] fn = "is_invoice_active" -> is_invoice_active(invoice)
          [] fn = "is_invoice_expired" -> is_invoice_expired(invoice)
          [] fn = "is_invoice_cancelled" -> is_invoice_cancelled(invoice)}

\* C29: the status predicates are pairwise disjoint: when one of
\* is_transaction_completed, is_transaction_pending, is_transaction_failed
\* returned true of a transaction, the other two are false of it, and when one
\* of is_invoice_paid, is_invoice_active, is_invoice_expired,
\* is_invoice_cancelled returned true of an invoice, the other three are false
\* of it.
C29_StatusPredicatesAreDisjoint ==
    /\ (utilLast /= None /\ utilLast.op \in TransactionPredicates) =>
        /\ utilLast.result <=> utilLast.op \in HoldingOfTransaction(utilLast.arg)
        /\ Cardinality(HoldingOfTransaction(utilLast.arg)) <= 1
    /\ (utilLast /= None /\ utilLast.op \in InvoicePredicates) =>
        /\ utilLast.result <=> utilLast.op \in HoldingOfInvoice(utilLast.arg)
        /\ Cardinality(HoldingOfInvoice(utilLast.arg)) <= 1

\* is_invoice_paid returned true of a completed invoice, and no other
\* invoice predicate holds of it.
C29_Witness ==
    /\ utilLast /= None
    /\ utilLast.op = "is_invoice_paid"
    /\ utilLast.arg.status = <<67, 111, 109, 112, 108, 101, 116, 101, 100>>
    /\ utilLast.result
    /\ HoldingOfInvoice(utilLast.arg) = {"is_invoice_paid"}
\* The number a header carries, when the header is present and parses as an
\* unsigned integer of its type.
NumberOf(headers, name) ==
    header_number(headers, name, IF name = "X-RateLimit-Reset" THEN U64_MAX ELSE U32_MAX)

\* C30: extract_rate_limit_info returns a value exactly when the headers
\* X-RateLimit-Remaining, X-RateLimit-Limit and X-RateLimit-Reset are all
\* present and parse as unsigned integers, and then calls_left = remaining,
\* reset_time = reset, calls_made = limit - remaining and
\* calls_made + calls_left = limit; otherwise it returns None.
C30_RateLimitInfoAddsUpToLimit ==
    (utilLast /= None /\ utilLast.op = "extract_rate_limit_info") =>
        LET headers == utilLast.headers
            result == utilLast.result
            remaining == NumberOf(headers, "X-RateLimit-Remaining")
            limit == NumberOf(headers, "X-RateLimit-Limit")
            reset == NumberOf(headers, "X-RateLimit-Reset")
        IN  /\ ~result.panic
            /\ result.v.t = "Some"
                <=> (remaining.t = "Some" /\ limit.t = "Some" /\ reset.t = "Some")
            /\ result.v.t = "Some" =>
                /\ result.v.v.calls_left = remaining.v
                /\ result.v.v.reset_time = reset.v
                /\ result.v.v.calls_made = limit.v - remaining.v
                /\ result.v.v.calls_made + result.v.v.calls_left = limit.v

====
